---- MODULE Spec2Model ----
(***************************************************************************)
(* The response-parsing core of the AI research engine                     *)
(* (utils/response_parser.py): ResponseParser with its section extractor,  *)
(* header fallback, list extractor and whitespace normalisation.           *)
(* Then the services around it: DataCollector.collect_all_data             *)
(* (services/data_collector.py), GeminiClient.generate_response            *)
(* (services/gemini_client.py) and MarketService.get_market_data           *)
(* (services/market_service.py), and the engine that coordinates them,     *)
(* AIResearchEngine (core/research_engine.py), and the line scanner        *)
(* extract_sections (utils/helpers.py).                                    *)
(*                                                                         *)
(* A text is a sequence of one-character strings.  The regular expressions *)
(* of the source are evaluated the way Python's re module evaluates them:  *)
(* leftmost start, greedy and lazy repetition in backtracking order,       *)
(* zero-width lookahead, and the flags each call passes.                   *)
(*                                                                         *)
(* A value that is used several times is bound once, as the argument of a  *)
(* local operator: LET Use(v) == ... IN Use(expression).                   *)
(***************************************************************************)
EXTENDS Integers, Sequences, FiniteSets, TLC

VARIABLES
    draft,              \* what the generator was asked to write: the layout behind response
    section_patterns,   \* self.section_patterns of the one ResponseParser instance
    response,           \* argument of the current parse_research_response call
    pc,                 \* "call" before the handler has run, "done" after it, "validated"
                        \* after validate_parsed_data has run on its result
    cleaned_response,   \* local of parse_research_response
    sections,           \* parsed_data after the extraction loop, before list conversion
    parsed_data,        \* the mapping the call returns
    outcome,            \* "none", "returned" or "raised"
    extract_calls,      \* number of _extract_section calls the current call has made
    text,               \* argument of the current _extract_list_items call
    items,              \* local items of _extract_list_items before deduplication
    list_result,        \* value _extract_list_items returns
    validation,         \* report validate_parsed_data returned for parsed_data
    th,                 \* concurrent callers: the locals of each caller's parse call
    returned,           \* concurrent callers: records returned so far, per input
    api_keys,           \* DataCollector: self.api_keys
    sources,            \* DataCollector: self.sources, names in insertion order
    tasks,              \* collect_all_data: the _collect_from_source coroutines handed to gather
    results,            \* collect_all_data: what asyncio.gather returned
    combined_data,      \* collect_all_data: the mapping it returns
    collect_pc,         \* collect_all_data: "idle", "gathering", "returned" or "raised"
    prompt,             \* generate_response: its prompt argument
    gemini_http,        \* generate_response: what the POST to the Gemini API came to
    gemini_response,    \* generate_response: the value it returned, or the exception it raised
    gemini_verdict,     \* the caller's reading of gemini_response: "SUCCESS" or "FAILED"
    gemini_pc,          \* generate_response: "idle", "posting", "done", then "tested"
    market_key,         \* MarketService: self.api_key
    topic,              \* get_market_data: its topic argument
    market_http,        \* _analyze_market_trends: what the GET to the market API came to
    market_data,        \* get_market_data: the value it returned, or the exception it raised
    market_pc,          \* get_market_data: "idle", "analyzing", "returned" or "raised"
    news_service,       \* AIResearchEngine: self.news_service is not None
    market_service,     \* AIResearchEngine: self.market_service is not None
    engine_topic,       \* research_topic: its topic argument
    ai_analysis,        \* research_topic: the text _generate_ai_analysis returned
    engine_parsed,      \* research_topic: its local parsed_data
    latest_news,        \* research_topic: its local latest_news
    fetched_market,     \* research_topic: its local market_data
    confidence_score,   \* the value of the last _calculate_confidence_score call
    research_result,    \* research_topic: the value it returned, or the exception it raised
    service_tests,      \* test_all_services: what each test_connection call came to
    test_results,       \* test_all_services: its local results, returned at the end
    engine_pc,          \* the engine call in progress and its position
    scan_response,      \* helpers.extract_sections: its response argument
    scan_sections,      \* helpers.extract_sections: the mapping it returned
    scan_pc             \* helpers.extract_sections: "call" before it has run, "done" after

vars == <<draft, section_patterns, response, pc, cleaned_response, sections, parsed_data,
          outcome, extract_calls, text, items, list_result, validation, th, returned,
          api_keys, sources, tasks, results, combined_data, collect_pc,
          prompt, gemini_http, gemini_response, gemini_verdict, gemini_pc,
          market_key, topic, market_http, market_data, market_pc,
          news_service, market_service, engine_topic, ai_analysis, engine_parsed, latest_news,
          fetched_market, confidence_score, research_result, service_tests, test_results, engine_pc,
          scan_response, scan_sections, scan_pc>>

parseVars == <<draft, response, pc, cleaned_response, sections, parsed_data, outcome, extract_calls,
               validation>>
listVars == <<text, items, list_result>>
concVars == <<th, returned>>
collectVars == <<api_keys, sources, tasks, results, combined_data, collect_pc>>
geminiVars == <<prompt, gemini_http, gemini_response, gemini_verdict, gemini_pc>>
marketVars == <<market_key, topic, market_http, market_data, market_pc>>
engineVars == <<news_service, market_service, engine_topic, ai_analysis, engine_parsed,
                latest_news, fetched_market, confidence_score, research_result, service_tests, test_results,
                engine_pc>>
helperVars == <<scan_response, scan_sections, scan_pc>>
svcVars == <<collectVars, geminiVars, marketVars, engineVars, helperVars>>

----------------------------------------------------------------------------
(* Characters *)

UpperCase == <<"A", "B", "C", "D", "E", "F", "G", "H", "I", "J", "K", "L", "M", "N", "O", "P", "Q", "R", "S", "T", "U", "V", "W", "X", "Y", "Z">>
LowerCase == <<"a", "b", "c", "d", "e", "f", "g", "h", "i", "j", "k", "l", "m", "n", "o", "p", "q", "r", "s", "t", "u", "v", "w", "x", "y", "z">>
LowerSet == {LowerCase[i] : i \in 1..26}
UpperSet == {UpperCase[i] : i \in 1..26}
ToUpper == [c \in LowerSet |-> UpperCase[CHOOSE i \in 1..26 : LowerCase[i] = c]]

\* re.IGNORECASE compares characters after case folding
Fold(c) == IF c \in LowerSet THEN ToUpper[c] ELSE c

\* str.strip() and \s
IsSpace(c) == c \in {" ", "\t", "\n", "\r"}
\* \d
IsDigit(c) == c \in {"0", "1", "2", "3", "4", "5", "6", "7", "8", "9"}
\* [A-Z] under re.IGNORECASE
IsLetter(c) == c \in UpperSet \/ c \in LowerSet

\* Python values carry their type: a str is not a list
Str(s) == [type |-> "str", val |-> s]
List(l) == [type |-> "list", val |-> l]

\* an exception leaving a function is modelled as this value, which is no text
Raised == <<"AttributeError">>

\* least and greatest element of a non-empty set of integers
Least(S) == CHOOSE x \in S : \A y \in S : x <= y
Greatest(S) == -Least({-x : x \in S})

\* end of the greedy \s* that starts at i: the first position that is not whitespace
SkipSpace(t, i) ==
    CHOOSE j \in i..(Len(t) + 1) :
        /\ j = Len(t) + 1 \/ ~IsSpace(t[j])
        /\ \A k \in i..(j - 1) : IsSpace(t[k])

\* last index of t[1..i] that is not whitespace, 0 when there is none
SkipSpaceBack(t, i) == Greatest({0} \cup {j \in 1..i : ~IsSpace(t[j])})

\* str.strip()
Strip(t) ==
    LET Between(b, e) == IF b > e THEN <<>> ELSE SubSeq(t, b, e)
    IN  Between(SkipSpace(t, 1), SkipSpaceBack(t, Len(t)))

\* a literal of the pattern matches at position i (flags decide case folding)
MatchLit(t, i, lit, icase) ==
    /\ i >= 1
    /\ i + Len(lit) - 1 <= Len(t)
    /\ \A k \in 1..Len(lit) :
          IF icase THEN Fold(t[i + k - 1]) = Fold(lit[k]) ELSE t[i + k - 1] = lit[k]

\* $ without re.MULTILINE: end of text, or just before a final newline
AtEnd(t, p) == p = Len(t) + 1 \/ (p = Len(t) /\ t[p] = "\n")

\* $ with re.MULTILINE: end of text, or just before any newline
AtLineEnd(t, p) == p = Len(t) + 1 \/ (p <= Len(t) /\ t[p] = "\n")

\* ^ with re.MULTILINE: start of text, or just after any newline
AtLineStart(t, p) == p = 1 \/ (p >= 2 /\ p <= Len(t) + 1 /\ t[p - 1] = "\n")

----------------------------------------------------------------------------
(* _clean_response: re.sub(r'\n\s*\n', '\n\n', response), then strip() *)

\* \n\s*\n started at the newline i: the greedy \s* takes the whole whitespace
\* run and gives characters back until the closing \n matches, so the match
\* ends at the last newline of the run; 0 when the run has no other newline
BlankRunEnd(t, i) ==
    LET LastOf(nls) == IF nls = {} THEN 0 ELSE Greatest(nls)
    IN  LastOf({j \in (i + 1)..(SkipSpace(t, i + 1) - 1) : t[j] = "\n"})

RECURSIVE CollapseFrom(_, _)
\* re.sub: the matches are replaced left to right, each search resuming after
\* the previous match
CollapseFrom(t, pos) ==
    LET Resume(ends) ==
            LET Replace(i) ==
                    SubSeq(t, pos, i - 1) \o <<"\n", "\n">> \o CollapseFrom(t, ends[i] + 1)
            IN  IF \A i \in pos..Len(t) : ends[i] = 0 THEN SubSeq(t, pos, Len(t))
                ELSE Replace(Least({i \in pos..Len(t) : ends[i] # 0}))
    IN  Resume([i \in pos..Len(t) |-> IF t[i] = "\n" THEN BlankRunEnd(t, i) ELSE 0])

\* the substitution alone, without strip()
CollapseOnly(resp) == CollapseFrom(resp, 1)

CleanResponse(resp) == Strip(CollapseFrom(resp, 1))

----------------------------------------------------------------------------
\* The pattern table.  Every section pattern has the shape
\*   (?:PRE\s*)? HDR [:\n]* (.*?) (?= \n(?:STOP|...|$) | $ )
\* and is searched with re.DOTALL | re.IGNORECASE.  A record keeps the
\* parts that vary: pre (empty when the pattern has no optional prefix),
\* hdr, stop (the literals allowed after the \n of the lookahead), nlEnd
\* (the lookahead has the alternative \n$), end (it has the alternative $),
\* caps (it has the alternative \n[A-Z\s]+: of the header fallback).

Fields == {"summary", "market_analysis", "technical_details",
           "business_opportunities", "key_players", "trends"}

\* iteration order of the dict section_patterns
FieldOrder == <<"summary", "market_analysis", "technical_details",
                "business_opportunities", "key_players", "trends">>

StringFields == {"summary", "market_analysis", "technical_details", "business_opportunities"}
ListFields == {"key_players", "trends"}

Pat(pre, hdr, stop, nlEnd, end) ==
    [pre |-> pre, hdr |-> hdr, stop |-> stop, nlEnd |-> nlEnd, end |-> end, caps |-> FALSE]

\* the second pattern of every field: (?:##\s*)?HDR[:\n]*(.*?)(?=\n##|$)
Hashed(hdr) == Pat(<<"#", "#">>, hdr, {<<"#", "#">>}, FALSE, TRUE)

SectionPatterns ==
    [f \in Fields |->
       CASE f = "summary" ->
              << Pat(<<"1", ".">>, <<"E", "X", "E", "C", "U", "T", "I", "V", "E", " ", "S", "U", "M", "M", "A", "R", "Y">>, {<<"2", ".">>, <<"M", "A", "R", "K", "E", "T", " ", "A", "N", "A", "L", "Y", "S", "I", "S">>}, TRUE, FALSE),
                 Hashed(<<"E", "X", "E", "C", "U", "T", "I", "V", "E", " ", "S", "U", "M", "M", "A", "R", "Y">>),
                 Pat(<<>>, <<"S", "U", "M", "M", "A", "R", "Y">>, {<<"M", "A", "R", "K", "E", "T">>, <<"A", "N", "A", "L", "Y", "S", "I", "S">>}, TRUE, FALSE) >>
         [] f = "market_analysis" ->
              << Pat(<<"2", ".">>, <<"M", "A", "R", "K", "E", "T", " ", "A", "N", "A", "L", "Y", "S", "I", "S">>, {<<"3", ".">>, <<"T", "E", "C", "H", "N", "I", "C", "A", "L", " ", "D", "E", "T", "A", "I", "L", "S">>}, TRUE, FALSE),
                 Hashed(<<"M", "A", "R", "K", "E", "T", " ", "A", "N", "A", "L", "Y", "S", "I", "S">>),
                 Pat(<<>>, <<"M", "A", "R", "K", "E", "T">>, {<<"T", "E", "C", "H", "N", "I", "C", "A", "L">>, <<"D", "E", "T", "A", "I", "L", "S">>}, TRUE, FALSE) >>
         [] f = "technical_details" ->
              << Pat(<<"3", ".">>, <<"T", "E", "C", "H", "N", "I", "C", "A", "L", " ", "D", "E", "T", "A", "I", "L", "S">>, {<<"4", ".">>, <<"B", "U", "S", "I", "N", "E", "S", "S", " ", "O", "P", "P", "O", "R", "T", "U", "N", "I", "T", "I", "E", "S">>}, TRUE, FALSE),
                 Hashed(<<"T", "E", "C", "H", "N", "I", "C", "A", "L", " ", "D", "E", "T", "A", "I", "L", "S">>),
                 Pat(<<>>, <<"T", "E", "C", "H", "N", "I", "C", "A", "L">>, {<<"B", "U", "S", "I", "N", "E", "S", "S">>, <<"O", "P", "P", "O", "R", "T", "U", "N", "I", "T", "I", "E", "S">>}, TRUE, FALSE) >>
         [] f = "business_opportunities" ->
              << Pat(<<"4", ".">>, <<"B", "U", "S", "I", "N", "E", "S", "S", " ", "O", "P", "P", "O", "R", "T", "U", "N", "I", "T", "I", "E", "S">>, {<<"5", ".">>, <<"K", "E", "Y", " ", "P", "L", "A", "Y", "E", "R", "S">>}, TRUE, FALSE),
                 Hashed(<<"B", "U", "S", "I", "N", "E", "S", "S", " ", "O", "P", "P", "O", "R", "T", "U", "N", "I", "T", "I", "E", "S">>),
                 Pat(<<>>, <<"B", "U", "S", "I", "N", "E", "S", "S">>, {<<"K", "E", "Y">>, <<"P", "L", "A", "Y", "E", "R", "S">>}, TRUE, FALSE) >>
         [] f = "key_players" ->
              << Pat(<<"5", ".">>, <<"K", "E", "Y", " ", "P", "L", "A", "Y", "E", "R", "S">>, {<<"6", ".">>, <<"T", "R", "E", "N", "D", "S">>}, TRUE, FALSE),
                 Hashed(<<"K", "E", "Y", " ", "P", "L", "A", "Y", "E", "R", "S">>),
                 Pat(<<>>, <<"K", "E", "Y", " ", "P", "L", "A", "Y", "E", "R", "S">>, {<<"T", "R", "E", "N", "D", "S">>}, TRUE, FALSE) >>
         [] f = "trends" ->
              << Pat(<<"6", ".">>, <<"T", "R", "E", "N", "D", "S">>, {<<"#", "#">>}, FALSE, TRUE),
                 Hashed(<<"T", "R", "E", "N", "D", "S">>),
                 Pat(<<>>, <<"T", "R", "E", "N", "D", "S">>, {}, FALSE, TRUE) >> ]

\* the header aliases of _extract_by_header, in the order they are tried
Headers ==
    [f \in Fields |->
       CASE f = "summary" -> << <<"E", "X", "E", "C", "U", "T", "I", "V", "E", " ", "S", "U", "M", "M", "A", "R", "Y">>, <<"S", "U", "M", "M", "A", "R", "Y">> >>
         [] f = "market_analysis" -> << <<"M", "A", "R", "K", "E", "T", " ", "A", "N", "A", "L", "Y", "S", "I", "S">>, <<"M", "A", "R", "K", "E", "T">> >>
         [] f = "technical_details" -> << <<"T", "E", "C", "H", "N", "I", "C", "A", "L", " ", "D", "E", "T", "A", "I", "L", "S">>, <<"T", "E", "C", "H", "N", "I", "C", "A", "L">> >>
         [] f = "business_opportunities" -> << <<"B", "U", "S", "I", "N", "E", "S", "S", " ", "O", "P", "P", "O", "R", "T", "U", "N", "I", "T", "I", "E", "S">>, <<"B", "U", "S", "I", "N", "E", "S", "S">> >>
         [] f = "key_players" -> << <<"K", "E", "Y", " ", "P", "L", "A", "Y", "E", "R", "S">>, <<"P", "L", "A", "Y", "E", "R", "S">> >>
         [] f = "trends" -> << <<"T", "R", "E", "N", "D", "S">> >> ]

\* rf'{header}[:\n]*(.*?)(?=\n(?:[A-Z\s]+:|$))'
HeaderPattern(header) ==
    [pre |-> <<>>, hdr |-> header, stop |-> {}, nlEnd |-> TRUE, end |-> FALSE, caps |-> TRUE]

\* len(content) > 10
MinContentLength == 10

\* the gate as ">= 10"
AdequateFromTen(content) == content # <<>> /\ Len(content) >= MinContentLength

\* if content and len(content) > 10
Adequate(content) == content # <<>> /\ Len(content) > MinContentLength

----------------------------------------------------------------------------
\* re.search(pattern, text, re.DOTALL | re.IGNORECASE)

NoMatch == [start |-> 0, gs |-> 0, ge |-> 0]

\* the header followed by [\n]* only: a colon after the header is not skipped
SkipNewlineOnly(t, i) ==
    CHOOSE j \in i..(Len(t) + 1) :
        /\ j = Len(t) + 1 \/ t[j] # "\n"
        /\ \A k \in i..(j - 1) : t[k] = "\n"

\* end of the greedy [:\n]* that starts at i
SkipColonNewline(t, i) ==
    CHOOSE j \in i..(Len(t) + 1) :
        /\ j = Len(t) + 1 \/ t[j] \notin {":", "\n"}
        /\ \A k \in i..(j - 1) : t[k] \in {":", "\n"}

\* end of the greedy [A-Z\s]+ that starts at i (letters of either case: IGNORECASE)
SkipCaps(t, i) ==
    Least({Len(t) + 1} \cup {j \in i..Len(t) : ~(IsLetter(t[j]) \/ IsSpace(t[j]))})

\* [A-Z\s]+: at position i; the colon is outside the class, so only the
\* whole run can be followed by it
CapsColon(t, i) ==
    LET ColonAt(e) == e > i /\ e <= Len(t) /\ t[e] = ":"
    IN  ColonAt(SkipCaps(t, i))

\* the lookahead of pattern pat holds at position p
LookAhead(t, p, pat) ==
    \/ pat.end /\ AtEnd(t, p)
    \/ /\ p <= Len(t)
       /\ t[p] = "\n"
       /\ \/ \E lit \in pat.stop : MatchLit(t, p + 1, lit, TRUE)
          \/ pat.caps /\ CapsColon(t, p + 1)
          \/ pat.nlEnd /\ AtEnd(t, p + 1)

\* (.*?) from q under DOTALL: the least p >= q where the lookahead holds, 0 when none
LazyEnd(t, q, pat) ==
    LET FirstOf(ends) == IF ends = {} THEN 0 ELSE Least(ends)
    IN  FirstOf({p \in q..(Len(t) + 1) : LookAhead(t, p, pat)})

RECURSIVE BodyFrom(_, _, _, _)
\* [:\n]* has taken t[h..q-1]; when the rest fails it gives one character back
BodyFrom(t, h, q, pat) ==
    LET EndAt(p) ==
            IF p # 0 THEN <<q, p>>
            ELSE IF q > h THEN BodyFrom(t, h, q - 1, pat)
            ELSE <<0, 0>>
    IN  EndAt(LazyEnd(t, q, pat))

\* where HDR starts when (?:PRE\s*)? is taken (0 when PRE does not match at i)
\* and when it is skipped: the order in which the engine tries the two
HeaderStarts(t, i, pat) ==
    << IF pat.pre # <<>> /\ MatchLit(t, i, pat.pre, TRUE)
       THEN SkipSpace(t, i + Len(pat.pre)) ELSE 0,
       i >>

\* HDR[:\n]*(.*?)(?=...) with HDR at j; <<0, 0>> when it fails
FromHeader(t, j, pat) ==
    IF j # 0 /\ MatchLit(t, j, pat.hdr, TRUE)
    THEN BodyFrom(t, j + Len(pat.hdr), SkipColonNewline(t, j + Len(pat.hdr)), pat)
    ELSE <<0, 0>>

\* the match that starts at i: the optional prefix is tried taken, then skipped
MatchAt(t, i, pat) ==
    LET FirstOf(ms) == IF ms[1] # <<0, 0>> THEN ms[1] ELSE ms[2]
    IN  FirstOf([k \in 1..2 |-> FromHeader(t, HeaderStarts(t, i, pat)[k], pat)])

\* the match at the rightmost position where one starts
SearchLast(pat, t) ==
    LET Rightmost(at) ==
            LET Match(i) == [start |-> i, gs |-> at[i][1], ge |-> at[i][2]]
            IN  IF \A i \in 1..Len(t) : at[i] = <<0, 0>> THEN NoMatch
                ELSE Match(Greatest({i \in 1..Len(t) : at[i] # <<0, 0>>}))
    IN  Rightmost([i \in 1..Len(t) |-> MatchAt(t, i, pat)])

\* re.search: the match at the leftmost position where one starts
Search(pat, t) ==
    LET Leftmost(at) ==
            LET Match(i) == [start |-> i, gs |-> at[i][1], ge |-> at[i][2]]
            IN  IF \A i \in 1..Len(t) : at[i] = <<0, 0>> THEN NoMatch
                ELSE Match(Least({i \in 1..Len(t) : at[i] # <<0, 0>>}))
    IN  Leftmost([i \in 1..Len(t) |-> MatchAt(t, i, pat)])

\* the test "if match:" left out
MatchFoundUnchecked(m) == TRUE

\* if match:
MatchFound(m) == m # NoMatch

\* match.group(1); on None it raises AttributeError
Group1(t, m) == IF m = NoMatch THEN Raised ELSE SubSeq(t, m.gs, m.ge - 1)

----------------------------------------------------------------------------
\* _extract_by_header and _extract_section

RECURSIVE TryHeaders(_, _, _)
\* the loop over section_headers; nothing catches an exception here
TryHeaders(t, hs, k) ==
    IF k > Len(hs) THEN <<>>
    ELSE LET Gate(content) ==
                 IF Adequate(content) THEN content ELSE TryHeaders(t, hs, k + 1)
             Content(g) == IF g = Raised THEN Raised ELSE Gate(Strip(g))
             Matched(match) ==
                 IF MatchFound(match) THEN Content(Group1(t, match))
                 ELSE TryHeaders(t, hs, k + 1)
         IN  Matched(Search(HeaderPattern(hs[k]), t))

\* headers.get(section_name, [])
SectionHeaders(section_name) ==
    IF section_name \in DOMAIN Headers THEN Headers[section_name] ELSE <<>>

ExtractByHeader(t, section_name) == TryHeaders(t, SectionHeaders(section_name), 1)

RECURSIVE TryPatterns(_, _, _, _)
\* the loop over patterns; an exception inside the try is logged and the
\* loop continues with the next pattern
TryPatterns(t, patterns, k, section_name) ==
    IF k > Len(patterns) THEN ExtractByHeader(t, section_name)
    ELSE LET Gate(content) ==
                 IF Adequate(content) THEN content
                 ELSE TryPatterns(t, patterns, k + 1, section_name)
             Content(g) ==
                 IF g = Raised THEN TryPatterns(t, patterns, k + 1, section_name)
                 ELSE Gate(Strip(g))
             Matched(match) ==
                 IF MatchFound(match) THEN Content(Group1(t, match))
                 ELSE TryPatterns(t, patterns, k + 1, section_name)
         IN  Matched(Search(patterns[k], t))

ExtractSection(t, patterns, section_name) == TryPatterns(t, patterns, 1, section_name)

----------------------------------------------------------------------------
\* _extract_list_items.  The four list patterns are searched with
\* re.findall(pattern, text, re.MULTILINE): case-sensitive, '.' stops at a
\* newline, ^ and $ match at every line.  A record keeps what varies:
\* anchored (the pattern starts with ^\s*), bullet ("hyphen" for [-],
\* "number" for \d+\.), look (the pattern ends with the lookahead
\* (?=\n<bullet>|\n\n|$) instead of a plain $).

ListPatterns ==
    << [anchored |-> FALSE, bullet |-> "hyphen", look |-> TRUE],
       [anchored |-> FALSE, bullet |-> "number", look |-> TRUE],
       [anchored |-> TRUE, bullet |-> "hyphen", look |-> FALSE],
       [anchored |-> TRUE, bullet |-> "number", look |-> FALSE] >>

\* len(line) > 5
MinItemLength == 5
\* unique_items[:10]
MaxItems == 10

\* end of the greedy \d+ that starts at i
SkipDigits(t, i) ==
    CHOOSE j \in i..(Len(t) + 1) :
        /\ j = Len(t) + 1 \/ ~IsDigit(t[j])
        /\ \A k \in i..(j - 1) : IsDigit(t[k])

\* position after the bullet started at j, 0 when it fails
BulletEnd(t, j, pat) ==
    IF pat.bullet = "hyphen"
    THEN (IF j <= Len(t) /\ t[j] = "-" THEN j + 1 ELSE 0)
    ELSE IF j > Len(t) THEN 0
    ELSE LET DotAt(d) == IF d > j /\ d <= Len(t) /\ t[d] = "." THEN d + 1 ELSE 0
         IN  DotAt(SkipDigits(t, j))

\* what follows the group holds at p
ListTail(t, p, pat) ==
    IF pat.look
    THEN \/ /\ p <= Len(t)
            /\ t[p] = "\n"
            /\ \/ BulletEnd(t, p + 1, pat) # 0
               \/ (p + 1 <= Len(t) /\ t[p + 1] = "\n")
         \/ AtLineEnd(t, p)
    ELSE AtLineEnd(t, p)

\* (.+?) has taken t[q]; it takes one more character (never a newline) until
\* what follows holds at p; 0 when it cannot go on before that
ListLazyEnd(t, q, pat) ==
    LET FirstOf(ends) == IF ends = {} THEN 0 ELSE Least(ends)
        UpTo(stop) == FirstOf({p \in (q + 1)..stop : ListTail(t, p, pat)})
    IN  UpTo(Least({j \in (q + 1)..(Len(t) + 1) : j = Len(t) + 1 \/ t[j] = "\n"}))

RECURSIVE ListBodyFrom(_, _, _, _)
\* \s* after the bullet has taken t[b..q-1]; when the rest fails it gives one
\* character back
ListBodyFrom(t, b, q, pat) ==
    LET EndAt(p) ==
            IF p # 0 THEN <<q, p>>
            ELSE IF q > b THEN ListBodyFrom(t, b, q - 1, pat)
            ELSE <<0, 0>>
    IN  EndAt(IF q <= Len(t) /\ t[q] # "\n" THEN ListLazyEnd(t, q, pat) ELSE 0)

\* the match that starts at i, <<0, 0>> when there is none
ListMatchAt(t, i, pat) ==
    LET AfterBullet(b) == IF b = 0 THEN <<0, 0>> ELSE ListBodyFrom(t, b, SkipSpace(t, b), pat)
        BulletAt(j) == AfterBullet(IF j = 0 THEN 0 ELSE BulletEnd(t, j, pat))
    IN  BulletAt(IF pat.anchored THEN (IF AtLineStart(t, i) THEN SkipSpace(t, i) ELSE 0) ELSE i)

RECURSIVE FindAllFrom(_, _, _)
\* the search for the next match resumes where the previous match ended
FindAllFrom(t, pos, pat) ==
    LET Leftmost(at) ==
            LET Group(m) == <<SubSeq(t, m[1], m[2] - 1)>> \o FindAllFrom(t, m[2], pat)
            IN  IF \A i \in pos..Len(t) : at[i] = <<0, 0>> THEN <<>>
                ELSE Group(at[Least({i \in pos..Len(t) : at[i] # <<0, 0>>})])
    IN  Leftmost([i \in pos..Len(t) |-> ListMatchAt(t, i, pat)])

\* re.findall: group 1 of every non-overlapping match, left to right
FindAll(pat, t) == FindAllFrom(t, 1, pat)

RECURSIVE StripAll(_)
\* [match.strip() for match in matches if match.strip()]
StripAll(ms) ==
    LET Keep(s) == IF s # <<>> THEN <<s>> ELSE <<>>
    IN  IF ms = <<>> THEN <<>> ELSE Keep(Strip(Head(ms))) \o StripAll(Tail(ms))

RECURSIVE FirstPattern(_, _)
\* the loop over patterns: the first pattern with a match supplies the items
FirstPattern(t, k) ==
    IF k > Len(ListPatterns) THEN <<>>
    ELSE LET Found(matches) ==
                 IF matches # <<>> THEN StripAll(matches) ELSE FirstPattern(t, k + 1)
         IN  Found(FindAll(ListPatterns[k], t))

RECURSIVE SplitFrom(_, _)
\* the line that starts at s, then the lines after its newline
SplitFrom(t, s) ==
    LET LineTo(e) ==
            IF e > Len(t) THEN <<SubSeq(t, s, Len(t))>>
            ELSE <<SubSeq(t, s, e - 1)>> \o SplitFrom(t, e + 1)
    IN  LineTo(Least({Len(t) + 1} \cup {j \in s..Len(t) : t[j] = "\n"}))

\* text.split('\n')
SplitLines(t) == SplitFrom(t, 1)

\* end of the greedy [-\d\.\s]+ that starts at i
SkipPrefix(t, i) ==
    CHOOSE j \in i..(Len(t) + 1) :
        /\ j = Len(t) + 1 \/ ~(t[j] \in {"-", "."} \/ IsDigit(t[j]) \/ IsSpace(t[j]))
        /\ \A k \in i..(j - 1) : t[k] \in {"-", "."} \/ IsDigit(t[k]) \/ IsSpace(t[k])

\* re.sub(r'^[-\d\.\s]+', '', line)
RemovePrefix(line) == SubSeq(line, SkipPrefix(line, 1), Len(line))

RECURSIVE LineItemsKeepShort(_)
\* the fallback loop without the length test of its lines
LineItemsKeepShort(lines) ==
    IF lines = <<>> THEN <<>>
    ELSE LET Keep(item) == IF item # <<>> THEN <<item>> ELSE <<>>
         IN  Keep(RemovePrefix(Strip(Head(lines)))) \o LineItemsKeepShort(Tail(lines))

RECURSIVE LineItems(_)
\* the fallback loop over lines
LineItems(lines) ==
    IF lines = <<>> THEN <<>>
    ELSE LET Keep(item) == IF item # <<>> THEN <<item>> ELSE <<>>
             Item(line) ==
                 IF line # <<>> /\ Len(line) > MinItemLength
                 THEN Keep(RemovePrefix(line)) ELSE <<>>
         IN  Item(Strip(Head(lines))) \o LineItems(Tail(lines))

\* items before deduplication
ListItems(t) ==
    LET Found(found) == IF found # <<>> THEN found ELSE LineItems(SplitLines(t))
    IN  Found(FirstPattern(t, 1))

RECURSIVE DedupFrom(_, _, _)
DedupFrom(its, k, acc) ==
    IF k > Len(its) THEN acc
    ELSE IF \E j \in 1..Len(acc) : acc[j] = its[k] THEN DedupFrom(its, k + 1, acc)
    ELSE DedupFrom(its, k + 1, Append(acc, its[k]))

\* no deduplication: list(items)
DedupKeepAll(its) == its

\* list(dict.fromkeys(items))
Dedup(its) == DedupFrom(its, 1, <<>>)

\* no truncation: return unique_items
LimitNone(its) == its

\* unique_items[:10]
Limit(its) == SubSeq(its, 1, IF Len(its) < MaxItems THEN Len(its) ELSE MaxItems)

ExtractListItems(t) == Limit(Dedup(ListItems(t)))

----------------------------------------------------------------------------
(* parse_research_response *)

\* _get_empty_result
GetEmptyResult ==
    [f \in Fields |-> IF f \in ListFields THEN List(<<>>) ELSE Str(<<>>)]

\* the test without strip(): only the empty string counts as empty
IsEmptyResponseNoStrip(resp) == resp = <<>>

\* not response or response.strip() == ""
IsEmptyResponse(resp) == resp = <<>> \/ Strip(resp) = <<>>

\* the loop storing a field only when its extraction found content
SectionLoopSkipEmpty(sp, cleaned) ==
    [f \in {g \in DOMAIN sp : ExtractSection(cleaned, sp[g], g) # <<>>} |->
        ExtractSection(cleaned, sp[f], f)]

\* the loop over section_patterns.items(): one _extract_section call per field
SectionLoop(sp, cleaned) ==
    [f \in DOMAIN sp |-> ExtractSection(cleaned, sp[f], f)]

\* if parsed_data.get(key): parsed_data[key] = self._extract_list_items(parsed_data[key])
ConvertList(pd, key) ==
    IF key \in DOMAIN pd /\ pd[key].val # <<>>
    THEN [pd EXCEPT ![key] = List(ExtractListItems(pd[key].val))]
    ELSE pd

\* the keys converted to lists, in the order of the code
ListKeys == <<"key_players", "trends">>

RECURSIVE ConvertFrom(_, _)
\* the conversions of ListKeys[k..], one after the other
ConvertFrom(pd, k) ==
    IF k > Len(ListKeys) THEN pd ELSE ConvertFrom(ConvertList(pd, ListKeys[k]), k + 1)

ConvertLists(pd) == ConvertFrom(pd, 1)

\* the whole call: every local the handler leaves behind
ParseResearchResponse(sp, resp) ==
    LET Return(cleaned, secs, raising) ==
            IF raising # {}
            THEN [cleaned |-> cleaned, sections |-> secs, calls |-> Least(raising),
                  outcome |-> "raised", data |-> <<>>]
            ELSE [cleaned |-> cleaned, sections |-> secs, calls |-> Cardinality(DOMAIN sp),
                  outcome |-> "returned",
                  data |-> ConvertLists([f \in DOMAIN secs |-> Str(secs[f])])]
        Loop(cleaned, secs) ==
            Return(cleaned, secs,
                   {k \in 1..Len(FieldOrder) :
                       FieldOrder[k] \in DOMAIN secs /\ secs[FieldOrder[k]] = Raised})
        Clean(cleaned) == Loop(cleaned, SectionLoop(sp, cleaned))
    IN  IF IsEmptyResponse(resp)
        THEN [cleaned |-> <<>>, sections |-> <<>>, calls |-> 0,
              outcome |-> "returned", data |-> GetEmptyResult]
        ELSE Clean(CleanResponse(resp))

\* a loop that consumes the list it iterates (patterns.pop(0))
PopPatterns(sp, section_name) ==
    [sp EXCEPT ![section_name] = IF @ = <<>> THEN @ ELSE Tail(@)]

\* what the loop "for pattern in patterns" leaves in self.section_patterns:
\* the loop reads the list of the field and changes nothing
IteratePatterns(sp, section_name) == sp

----------------------------------------------------------------------------
(* validate_parsed_data *)

\* len(content) > 50
MinValidLength == 50

\* data.get(key, ''), data.get(key): a missing key reads as an empty value
GetValue(data, key) == IF key \in DOMAIN data THEN data[key].val ELSE <<>>

\* the threshold as ">= 50"
ValidateFromFifty(data) ==
    [f \in Fields |->
        IF f \in StringFields
        THEN GetValue(data, f) # <<>> /\ Len(GetValue(data, f)) >= MinValidLength
        ELSE GetValue(data, f) # <<>>]

\* bool(content and len(content) > 50) for the required sections,
\* bool(data.get(key)) for key_players and trends
ValidateParsedData(data) ==
    [f \in Fields |->
        IF f \in StringFields
        THEN GetValue(data, f) # <<>> /\ Len(GetValue(data, f)) > MinValidLength
        ELSE GetValue(data, f) # <<>>]

\* a validator that repairs the record it reads: a list field without content
\* is set to []
ValidatedDataRepaired(data) ==
    [f \in DOMAIN data |-> IF f \in ListFields /\ data[f].val = <<>> THEN List(<<>>) ELSE data[f]]

\* the argument after the call: the code only reads it, with data.get
ValidatedData(data) == data

----------------------------------------------------------------------------
(* Inputs *)

RECURSIVE Join(_)
\* '\n'.join(lines)
Join(ls) ==
    IF ls = <<>> THEN <<>>
    ELSE IF Len(ls) = 1 THEN ls[1]
    ELSE ls[1] \o <<"\n">> \o Join(Tail(ls))

SeqsUpTo(S, n) == UNION {[1..k -> S] : k \in 0..n}

\* free-form responses have at most MaxLines lines
MaxLines == 3

Lines ==
    { <<>>, <<" ">>,
      <<"1", ".", " ", "E", "X", "E", "C", "U", "T", "I", "V", "E", " ", "S", "U", "M", "M", "A", "R", "Y">>, <<"S", "U", "M", "M", "A", "R", "Y", ":">>, <<"2", ".", " ", "M", "A", "R", "K", "E", "T", " ", "A", "N", "A", "L", "Y", "S", "I", "S">>, <<"K", "E", "Y", " ", "P", "L", "A", "Y", "E", "R", "S">>, <<"#", "#", " ", "T", "R", "E", "N", "D", "S">>,
      <<"B", "r", "i", "e", "f", ".">>, <<"T", "e", "n", " ", "c", "h", "a", "r", "s", ".">>, <<"E", "l", "e", "v", "e", "n", " ", "c", "h", "a", "r">>, <<"N", "o", "t", "e", ":", " ", "x">>, <<"-", " ", "A", "l", "p", "h", "a", " ", "C", "o", "r", "p">> }

Responses == {Join(ls) : ls \in SeqsUpTo(Lines, MaxLines)}

\* the state before any call
NoCall == [cleaned |-> <<>>, sections |-> <<>>, calls |-> 0, outcome |-> "none", data |-> <<>>]

ParseIdle ==
    /\ pc = "call"
    /\ cleaned_response = NoCall.cleaned
    /\ sections = NoCall.sections
    /\ parsed_data = NoCall.data
    /\ outcome = NoCall.outcome
    /\ extract_calls = NoCall.calls
    /\ validation = <<>>

ListIdle == text = <<>> /\ items = <<>> /\ list_result = <<>>
ConcIdle == th = <<>> /\ returned = {}
CollectIdle ==
    /\ api_keys = <<>> /\ sources = <<>> /\ tasks = <<>> /\ results = <<>>
    /\ combined_data = <<>> /\ collect_pc = "idle"
GeminiIdle ==
    /\ prompt = <<>> /\ gemini_http = <<>> /\ gemini_response = <<>>
    /\ gemini_verdict = "" /\ gemini_pc = "idle"
MarketIdle ==
    /\ market_key = <<>> /\ topic = <<>> /\ market_http = <<>> /\ market_data = <<>>
    /\ market_pc = "idle"
EngineIdle ==
    /\ news_service = FALSE /\ market_service = FALSE /\ engine_topic = <<>>
    /\ ai_analysis = <<>> /\ engine_parsed = <<>> /\ latest_news = <<>>
    /\ fetched_market = <<>> /\ confidence_score = 0 /\ research_result = <<>> /\ service_tests = <<>>
    /\ test_results = <<>> /\ engine_pc = "idle"
HelperIdle == scan_response = <<>> /\ scan_sections = <<>> /\ scan_pc = "idle"
SvcIdle == CollectIdle /\ GeminiIdle /\ MarketIdle /\ EngineIdle /\ HelperIdle

----------------------------------------------------------------------------
(* One parser instance, one parse_research_response call on a free-form response *)

Init ==
    /\ section_patterns = SectionPatterns
    /\ draft = <<>>
    /\ response \in Responses
    /\ ParseIdle
    /\ ListIdle
    /\ ConcIdle
    /\ SvcIdle

\* ResponseParser.parse_research_response(response)
Parse ==
    /\ pc = "call"
    /\ \E r \in {ParseResearchResponse(section_patterns, response)} :
           /\ cleaned_response' = r.cleaned
           /\ sections' = r.sections
           /\ parsed_data' = r.data
           /\ outcome' = r.outcome
           /\ extract_calls' = r.calls
    /\ pc' = "done"
    /\ UNCHANGED <<draft, section_patterns, response, validation, listVars, concVars, svcVars>>

\* ResponseParser.validate_parsed_data(parsed_data) on the record at hand
ValidateParsed ==
    /\ pc = "done"
    /\ outcome # "raised"
    /\ validation' = ValidateParsedData(parsed_data)
    /\ parsed_data' = ValidatedData(parsed_data)
    /\ pc' = "validated"
    /\ UNCHANGED <<draft, section_patterns, response, cleaned_response, sections, outcome,
                   extract_calls, listVars, concVars, svcVars>>

Next == Parse \/ ValidateParsed

Spec == Init /\ [][Next]_vars

----------------------------------------------------------------------------
(* The same call on a header line followed by a body *)

\* bodies have at most MaxBodyLines lines
MaxBodyLines == 2

BodyLines ==
    { <<"F", "o", "o", " ", "b", "a", "r", " ", "b", "a", "z", " ", "q", "u", "x", " ", "q", "u", "u", "x", ".">>, <<"B", "r", "i", "e", "f", ".">>, <<"T", "e", "n", " ", "c", "h", "a", "r", "s", ".">>, <<"E", "l", "e", "v", "e", "n", " ", "c", "h", "a", "r">>, <<"2", ".", " ", "s", "e", "c", "o", "n", "d", " ", "p", "o", "i", "n", "t">>,
      <<"#", "#", " ", "t", "h", "i", "r", "d", " ", "p", "o", "i", "n", "t">>, <<"-", " ", "A", "l", "p", "h", "a", " ", "C", "o", "r", "p">>, <<"N", "o", "t", "e", ":", " ", "w", "e", "l", "l">>, <<":", " ", "c", "o", "l", "o", "n", " ", "f", "i", "r", "s", "t">>, <<" ", "p", "a", "d", "d", "e", "d", " ", "b", "o", "d", "y", " ", "t", "e", "x", "t", " ">>,
      <<"3", ".", " ", "T", "r", "e", "n", "d", "s", " ", "s", "h", "i", "f", "t">> }

Bodies == {Join(ls) : ls \in SeqsUpTo(BodyLines, MaxBodyLines) \ {<<>>}}

\* the three header forms of the summary section
HeaderForms == << <<"1", ".", " ", "E", "X", "E", "C", "U", "T", "I", "V", "E", " ", "S", "U", "M", "M", "A", "R", "Y">>, <<"#", "#", " ", "E", "X", "E", "C", "U", "T", "I", "V", "E", " ", "S", "U", "M", "M", "A", "R", "Y">>, <<"E", "X", "E", "C", "U", "T", "I", "V", "E", " ", "S", "U", "M", "M", "A", "R", "Y", ":">> >>

HeaderResponse(form, body) == HeaderForms[form] \o <<"\n">> \o body

InitHeader ==
    /\ section_patterns = SectionPatterns
    /\ draft \in [form : 1..Len(HeaderForms), body : Bodies]
    /\ response = HeaderResponse(draft.form, draft.body)
    /\ ParseIdle
    /\ ListIdle
    /\ ConcIdle
    /\ SvcIdle

SpecHeader == InitHeader /\ [][Next]_vars

----------------------------------------------------------------------------
(* The same call on a response that follows the prompt: six sections in order *)

\* 1. EXECUTIVE SUMMARY ... 6. TRENDS, or ## EXECUTIVE SUMMARY ..., or the bare header
HeaderLine(style, k) ==
    LET hdr == Headers[FieldOrder[k]][1]
    IN  CASE style = "numbered" -> <<<<"1", "2", "3", "4", "5", "6">>[k], ".", " ">> \o hdr
          [] style = "hashed" -> <<"#", "#", " ">> \o hdr
          [] style = "bare" -> hdr

Styles == {"numbered", "hashed", "bare"}

\* the body of every section but the one under study
DefaultBody(f) == IF f \in ListFields THEN <<"-", " ", "A", "l", "p", "h", "a", " ", "C", "o", "r", "p", "\n", "-", " ", "B", "e", "t", "a", " ", "C", "o", "r", "p">> ELSE <<"P", "l", "a", "i", "n", " ", "s", "e", "c", "t", "i", "o", "n", " ", "t", "e", "x", "t", ".">>

SixBodyLines ==
    { <<"F", "o", "o", " ", "b", "a", "r", " ", "b", "a", "z", " ", "q", "u", "x", " ", "q", "u", "u", "x", ".">>, <<"B", "r", "i", "e", "f", ".">>, <<"2", ".", " ", "s", "e", "c", "o", "n", "d", " ", "p", "o", "i", "n", "t">>, <<"T", "r", "e", "n", "d", "s", " ", "s", "h", "i", "f", "t", " ", "f", "a", "s", "t">>, <<"-", " ", "A", "l", "p", "h", "a", " ", "C", "o", "r", "p">>, <<"N", "o", "t", "e", ":", " ", "w", "e", "l", "l", " ", "d", "o", "n", "e">> }

SixBodies == {Join(ls) : ls \in SeqsUpTo(SixBodyLines, MaxBodyLines) \ {<<>>}}

RECURSIVE Render(_, _, _)
\* header line, newline, body for sections k..6
Render(style, bodies, k) ==
    LET sec == HeaderLine(style, k) \o <<"\n">> \o bodies[FieldOrder[k]]
    IN  IF k = Len(FieldOrder) THEN sec ELSE sec \o <<"\n">> \o Render(style, bodies, k + 1)

SixDrafts ==
    {[style |-> st, bodies |-> [f \in Fields |-> IF f = g THEN b ELSE DefaultBody(f)]] :
        st \in Styles, g \in Fields, b \in SixBodies}

InitSix ==
    /\ section_patterns = SectionPatterns
    /\ draft \in SixDrafts
    /\ response = Render(draft.style, draft.bodies, 1)
    /\ ParseIdle
    /\ ListIdle
    /\ ConcIdle
    /\ SvcIdle

SpecSix == InitSix /\ [][Next]_vars

----------------------------------------------------------------------------
(* One _extract_list_items call *)

\* list texts have at most MaxListLines lines
MaxListLines == 3

ListLines ==
    { <<>>, <<"-">>, <<"-", " ", "A", "l", "p", "h", "a">>, <<"-", " ", "B", "e", "t", "a">>, <<"1", ".", " ", "A", "l", "p", "h", "a">>, <<"2", ".", " ", "G", "a", "m", "m", "a", "-", "R", "a", "y">>, <<"A", "l", "p", "h", "a">>, <<"D", "e", "l", "t", "a", " ", "C", "o", "r", "p">> }

ListTexts == {Join(ls) : ls \in SeqsUpTo(ListLines, MaxListLines)}

InitList ==
    /\ section_patterns = SectionPatterns
    /\ draft = <<>>
    /\ response = <<>>
    /\ ParseIdle
    /\ text \in ListTexts
    /\ items = <<>>
    /\ list_result = <<>>
    /\ ConcIdle
    /\ SvcIdle

\* ResponseParser._extract_list_items(text)
ExtractList ==
    /\ pc = "call"
    /\ \E its \in {ListItems(text)} :
           /\ items' = its
           /\ list_result' = Limit(Dedup(its))
    /\ pc' = "done"
    /\ UNCHANGED <<draft, section_patterns, response, cleaned_response, sections, parsed_data,
                   outcome, extract_calls, validation, text, concVars, svcVars>>

NextList == ExtractList

SpecList == InitList /\ [][NextList]_vars

----------------------------------------------------------------------------
(* Several callers on the one parser instance.  A call is a sequence of     *)
(* steps, one per _extract_section call, and the steps of different callers *)
(* interleave in any order; response, cleaned_response and parsed_data are  *)
(* locals of each call, section_patterns belongs to the shared instance.    *)

Callers == {1, 2}

ConcResponses ==
    { <<" ", "\n", " ">>, <<"B", "r", "i", "e", "f", ".">>, <<"1", ".", " ", "E", "X", "E", "C", "U", "T", "I", "V", "E", " ", "S", "U", "M", "M", "A", "R", "Y", "\n", "F", "o", "o", " ", "b", "a", "r", " ", "b", "a", "z", " ", "q", "u", "x", " ", "q", "u", "u", "x", ".">>,
      <<"K", "E", "Y", " ", "P", "L", "A", "Y", "E", "R", "S", "\n", "-", " ", "A", "l", "p", "h", "a", " ", "C", "o", "r", "p", "\n", "-", " ", "B", "e", "t", "a", " ", "C", "o", "r", "p">> }

IdleCaller ==
    [pc |-> "idle", response |-> <<>>, cleaned |-> <<>>, k |-> 0, data |-> <<>>, report |-> <<>>]

InitConcurrent ==
    /\ section_patterns = SectionPatterns
    /\ draft = <<>>
    /\ response = <<>>
    /\ ParseIdle
    /\ ListIdle
    /\ SvcIdle
    /\ th = [c \in Callers |-> IdleCaller]
    /\ returned = {}

\* parse_research_response(s) up to the extraction loop; an empty response
\* returns at once
Call(c, s) ==
    /\ th[c].pc \in {"idle", "got"}
    /\ IF IsEmptyResponse(s)
       THEN /\ th' = [th EXCEPT ![c] = [pc |-> "got", response |-> s, cleaned |-> <<>>, k |-> 0,
                                        data |-> GetEmptyResult, report |-> <<>>]]
            /\ returned' = returned \cup {<<s, GetEmptyResult>>}
       ELSE /\ th' = [th EXCEPT ![c] = [pc |-> "loop", response |-> s,
                                        cleaned |-> CleanResponse(s), k |-> 1,
                                        data |-> <<>>, report |-> <<>>]]
            /\ returned' = returned
    /\ UNCHANGED <<parseVars, section_patterns, listVars, svcVars>>

\* one iteration of the loop over section_patterns.items()
Extract(c) ==
    /\ th[c].pc = "loop"
    /\ \E f \in {FieldOrder[th[c].k]} :
       \E content \in {ExtractSection(th[c].cleaned, section_patterns[f], f)} :
          /\ th' = [th EXCEPT ![c].data = [g \in DOMAIN @ \cup {f} |->
                                              IF g = f THEN Str(content) ELSE @[g]],
                              ![c].k = @ + 1,
                              ![c].pc = IF content = Raised THEN "raised"
                                        ELSE IF th[c].k = Len(FieldOrder) THEN "convert"
                                        ELSE "loop"]
          /\ section_patterns' = IteratePatterns(section_patterns, f)
    /\ UNCHANGED <<parseVars, listVars, returned, svcVars>>

\* the two list conversions and the return
Convert(c) ==
    /\ th[c].pc = "convert"
    /\ \E d \in {ConvertLists(th[c].data)} :
          /\ th' = [th EXCEPT ![c].data = d, ![c].pc = "got"]
          /\ returned' = returned \cup {<<th[c].response, d>>}
    /\ UNCHANGED <<parseVars, section_patterns, listVars, svcVars>>

\* validate_parsed_data on the record the caller got
Validate(c) ==
    /\ th[c].pc = "got"
    /\ th[c].report = <<>>
    /\ th' = [th EXCEPT ![c].report = ValidateParsedData(th[c].data)]
    /\ UNCHANGED <<parseVars, section_patterns, listVars, returned, svcVars>>

NextConcurrent ==
    \E c \in Callers :
        \/ \E s \in ConcResponses : Call(c, s)
        \/ Extract(c)
        \/ Convert(c)
        \/ Validate(c)

SpecConcurrent == InitConcurrent /\ [][NextConcurrent]_vars

----------------------------------------------------------------------------
(* Properties *)

Range(s) == {s[i] : i \in 1..Len(s)}

AllWhitespace(s) == \A i \in 1..Len(s) : s[i] \in {" ", "\t", "\n", "\r"}

\* the record with four empty strings and two empty lists
AllEmptyRecord ==
    [summary |-> [type |-> "str", val |-> <<>>],
     market_analysis |-> [type |-> "str", val |-> <<>>],
     technical_details |-> [type |-> "str", val |-> <<>>],
     business_opportunities |-> [type |-> "str", val |-> <<>>],
     key_players |-> [type |-> "list", val |-> <<>>],
     trends |-> [type |-> "list", val |-> <<>>]]

\* a header line of field g: an optional 1.-6. or ## prefix, the header text
\* of g, an optional colon
HeaderPrefixes ==
    {<<>>, <<"#", "#">>, <<"#", "#", " ">>} \cup {<<<<"1", "2", "3", "4", "5", "6">>[k], ".">> : k \in 1..6}
                          \cup {<<<<"1", "2", "3", "4", "5", "6">>[k], ".", " ">> : k \in 1..6}

IsHeaderLineOf(line, g) ==
    \E pre \in HeaderPrefixes, col \in {<<>>, <<":">>} : line = pre \o Headers[g][1] \o col

ContainsHeaderLineOf(content, g) ==
    \E line \in Range(SplitLines(content)) : IsHeaderLineOf(Strip(line), g)

NoFieldHeader(body) == \A g \in Fields : ~ContainsHeaderLineOf(body, g)

\* the matchers of field f in priority order: its patterns, then its header aliases
Strategies(f) ==
    section_patterns[f] \o [k \in 1..Len(Headers[f]) |-> HeaderPattern(Headers[f][k])]

\* the trimmed content matcher pat captures in the cleaned response, empty when
\* it does not match
Captured(pat) ==
    LET m == Search(pat, cleaned_response)
    IN  IF m = NoMatch THEN <<>> ELSE Strip(SubSeq(cleaned_response, m.gs, m.ge - 1))

\* the content of the first matcher of f that captures at least limit characters
FirstAdequate(f, limit) ==
    LET caps == [k \in 1..Len(Strategies(f)) |-> Captured(Strategies(f)[k])]
        ok == {k \in 1..Len(Strategies(f)) : Len(caps[k]) >= limit}
    IN  IF ok = {} THEN <<>> ELSE caps[Least(ok)]

\* C1: every call returns a mapping whose key set is exactly the six fields
ClosedKeys == pc = "done" => DOMAIN parsed_data = Fields

ClosedKeysWitness ==
    /\ pc = "done"
    /\ ~AllWhitespace(response)
    /\ DOMAIN parsed_data = Fields
    /\ parsed_data["summary"].val # <<>>
    /\ parsed_data["trends"].val = <<>>

\* C2: the four text fields are returned as strings and key_players and trends
\* as lists, also when their extraction fails
FieldTypes ==
    pc = "done" =>
        \A f \in DOMAIN parsed_data :
            parsed_data[f].type = (IF f \in {"key_players", "trends"} THEN "list" ELSE "str")

\* C3: an empty or whitespace-only response gives the all-empty record and no
\* extraction runs
EmptyInputLaw ==
    (pc = "done" /\ AllWhitespace(response)) =>
        (parsed_data = AllEmptyRecord /\ extract_calls = 0)

EmptyInputWitness ==
    /\ pc = "done"
    /\ Len(response) > 1
    /\ AllWhitespace(response)
    /\ parsed_data = AllEmptyRecord

\* C4: for every response the call ends by returning a record with the six
\* fields; no exception leaves it
Totality ==
    pc = "done" =>
        /\ outcome = "returned"
        /\ \A f \in DOMAIN sections : sections[f] # Raised
        /\ \A f \in Fields : f \in DOMAIN parsed_data

TotalityWitness ==
    /\ pc = "done"
    /\ response = <<"S", "U", "M", "M", "A", "R", "Y", ":", "\n", "S", "U", "M", "M", "A", "R", "Y", ":">>
    /\ outcome = "returned"
    /\ \A f \in Fields : parsed_data[f].val = <<>>

StopsAtNextHeader ==
    (pc = "done" /\ DOMAIN sections = Fields) =>
        \A f \in Fields : \A g \in Fields \ {f} : ~ContainsHeaderLineOf(sections[f], g)

SectionComplete ==
    pc = "done" => \A f \in Fields : sections[f] = Strip(draft.bodies[f])

\* C10: the returned list has no item twice and keeps the items in the order
\* of their first occurrence
FirstIndex(s, x) == Least({i \in 1..Len(s) : s[i] = x})

DedupInOrder ==
    pc = "done" =>
        /\ \A i, j \in 1..Len(list_result) : i # j => list_result[i] # list_result[j]
        /\ Range(list_result) \subseteq Range(items)
        /\ \A i, j \in 1..Len(list_result) :
              i < j => FirstIndex(items, list_result[i]) < FirstIndex(items, list_result[j])

DedupWitness ==
    /\ pc = "done"
    /\ text = <<"-", " ", "A", "l", "p", "h", "a", "\n", "-", " ", "B", "e", "t", "a", "\n", "-", " ", "A", "l", "p", "h", "a">>
    /\ list_result = << <<"A", "l", "p", "h", "a">>, <<"B", "e", "t", "a">> >>

\* C5: the record returned for a response is the same at every repetition and
\* under every interleaving of callers, and no call changes section_patterns
Deterministic ==
    /\ section_patterns = SectionPatterns
    /\ \A a \in returned : \A b \in returned : a[1] = b[1] => a[2] = b[2]

\* two callers are in the middle of the extraction loop on the same response,
\* at different fields, after a call on that response has already returned
DeterministicWitness ==
    /\ th[1].pc = "loop"
    /\ th[2].pc = "loop"
    /\ th[1].k # th[2].k
    /\ th[1].response = th[2].response
    /\ \E a \in returned : a[1] = th[1].response


----------------------------------------------------------------------------
(* _extract_list_items on long bullet lists *)

\* bullet lists have at most MaxBullets distinct lines
MaxBullets == 12

\* the k-th item of a list that starts at letter rot + 1: "Item A", "Item B", ...
BulletItem(rot, k) == <<"I", "t", "e", "m", " ">> \o <<UpperCase[((rot + k - 1) % 26) + 1]>>

\* the number in front of the k-th line of a numbered list
LineNumber(k) == IF k < 10 THEN <<<<"0", "1", "2", "3", "4", "5", "6", "7", "8", "9">>[k + 1]>> ELSE <<"1", <<"0", "1", "2", "3", "4", "5", "6", "7", "8", "9">>[k - 9]>>

\* the k-th line: "- Item A" or "1. Item A"
BulletLine(style, rot, k) ==
    (IF style = "hyphen" THEN <<"-", " ">> ELSE LineNumber(k) \o <<".", " ">>) \o BulletItem(rot, k)

\* n distinct bullet lines; with dup the first line is repeated after the second
BulletLines(d) ==
    LET ks == IF d.dup /\ d.n >= 2
              THEN <<1, 2, 1>> \o [k \in 1..(d.n - 2) |-> k + 2]
              ELSE [k \in 1..d.n |-> k]
    IN  [i \in 1..Len(ks) |-> BulletLine(d.style, d.rot, ks[i])]

BulletDrafts ==
    [style : {"hyphen", "number"}, n : 0..MaxBullets, rot : {0, 7, 20}, dup : BOOLEAN]

InitBullets ==
    /\ section_patterns = SectionPatterns
    /\ draft \in BulletDrafts
    /\ response = <<>>
    /\ ParseIdle
    /\ text = Join(BulletLines(draft))
    /\ items = <<>>
    /\ list_result = <<>>
    /\ ConcIdle
    /\ SvcIdle

SpecBullets == InitBullets /\ [][NextList]_vars

\* C11: the list has at most 10 items, and a text with more than 10 distinct
\* bullet lines gives exactly the first 10 of them in order
ListTruncation ==
    pc = "done" =>
        /\ Len(list_result) <= 10
        /\ draft.n > 10 => list_result = [k \in 1..10 |-> BulletItem(draft.rot, k)]

\* twelve distinct numbered lines, one of them repeated, give the first ten
ListTruncationWitness ==
    /\ pc = "done"
    /\ draft.n = 12
    /\ draft.dup
    /\ draft.style = "number"
    /\ Len(items) = 13
    /\ Len(list_result) = 10
    /\ list_result[10] = BulletItem(draft.rot, 10)

----------------------------------------------------------------------------
(* validate_parsed_data on any record *)

\* string values are up to MaxOver characters longer than the threshold
MaxOver == 1

\* a text of n characters
TextOf(n) == [i \in 1..n |-> "x"]

StringLengths == {0, 1, MinValidLength - 1} \cup {MinValidLength + k : k \in 0..MaxOver}

\* an absent key
Missing == [type |-> "missing", val |-> <<>>]

\* what a field of the record may hold
StringValues == {Missing} \cup {Str(TextOf(n)) : n \in StringLengths}
ListValues == {Missing, Str(<<>>), List(<<>>), List(<< <<"A", "l", "p", "h", "a", " ", "C", "o", "r", "p">> >>)}

\* the record of a choice: absent keys are left out
RecordOf(choice) == [f \in {g \in Fields : choice[g] # Missing} |-> choice[f]]

ValidationInputs ==
    {RecordOf(s @@ l) : s \in [StringFields -> StringValues], l \in [ListFields -> ListValues]}

\* a record is at hand, no parse call has produced it
InitValidate ==
    /\ section_patterns = SectionPatterns
    /\ draft = <<>>
    /\ response = <<>>
    /\ pc = "done"
    /\ cleaned_response = NoCall.cleaned
    /\ sections = NoCall.sections
    /\ parsed_data \in ValidationInputs
    /\ outcome = NoCall.outcome
    /\ extract_calls = NoCall.calls
    /\ validation = <<>>
    /\ ListIdle
    /\ ConcIdle
    /\ SvcIdle

NextValidate == ValidateParsed

SpecValidate == InitValidate /\ [][NextValidate]_vars

\* C12: the report has exactly the six field names; a string field is adequate
\* iff its text has more than 50 characters, a list field iff it is not empty
ValidationThresholds ==
    pc = "validated" =>
        /\ DOMAIN validation = Fields
        /\ \A f \in {"summary", "market_analysis", "technical_details", "business_opportunities"} :
              validation[f] <=> (f \in DOMAIN parsed_data /\ Len(parsed_data[f].val) > 50)
        /\ \A f \in {"key_players", "trends"} :
              validation[f] <=> (f \in DOMAIN parsed_data /\ Len(parsed_data[f].val) > 0)

\* 51 characters are adequate, 50 are not, an empty list is not
ValidationWitness ==
    /\ pc = "validated"
    /\ DOMAIN parsed_data = Fields
    /\ Len(parsed_data["summary"].val) = 51
    /\ validation["summary"]
    /\ Len(parsed_data["market_analysis"].val) = 50
    /\ ~validation["market_analysis"]
    /\ parsed_data["key_players"] = List(<<>>)
    /\ ~validation["key_players"]
    /\ parsed_data["trends"].type = "list"
    /\ validation["trends"]

----------------------------------------------------------------------------
\* C13: validate_parsed_data on the record parse_research_response returned
\* gives a report of six booleans and leaves the record as it was
ValidatorAdvisory ==
    [][pc' = "validated" => (parsed_data' = parsed_data /\ validation' \in [Fields -> BOOLEAN])]_vars

\* a record with content and a failed list field has been validated as it is
ValidatorAdvisoryWitness ==
    /\ pc = "validated"
    /\ response # <<>>
    /\ parsed_data["summary"].val # <<>>
    /\ parsed_data["key_players"] = Str(<<>>)
    /\ validation["summary"] = FALSE
    /\ validation["key_players"] = FALSE
----------------------------------------------------------------------------
(* parse_research_response, then validate_parsed_data, on a six-section
   response whose text bodies are longer than 50 characters *)

LongLines ==
    { <<"T", "h", "i", "s", " ", "p", "l", "a", "i", "n", " ", "s", "e", "n", "t", "e", "n", "c", "e", " ", "h", "a", "s", " ", "m", "o", "r", "e", " ", "t", "h", "a", "n", " ", "f", "i", "f", "t", "y", " ", "c", "h", "a", "r", "a", "c", "t", "e", "r", "s", " ", "i", "n", " ", "i", "t", ".">>, <<"O", "v", "e", "r", "v", "i", "e", "w", " ", "o", "f", " ", "t", "h", "e", " ", "f", "i", "e", "l", "d", ".">>,
      <<"2", ".", " ", "T", "h", "e", "n", " ", "a", " ", "s", "e", "c", "o", "n", "d", " ", "p", "o", "i", "n", "t", " ", "t", "h", "a", "t", " ", "g", "o", "e", "s", " ", "o", "n", " ", "w", "e", "l", "l", " ", "p", "a", "s", "t", " ", "f", "i", "f", "t", "y", " ", "c", "h", "a", "r", "s", ".">>, <<"#", "#", " ", "a", "n", "d", " ", "a", " ", "c", "l", "o", "s", "i", "n", "g", " ", "r", "e", "m", "a", "r", "k">> }

\* bodies of at most MaxBodyLines lines, longer than MinValidLength characters
LongBodies ==
    {b \in {Join(ls) : ls \in SeqsUpTo(LongLines, MaxBodyLines) \ {<<>>}} : Len(b) > MinValidLength}

ListBodies == { <<"-", " ", "A", "l", "p", "h", "a", " ", "C", "o", "r", "p", "\n", "-", " ", "B", "e", "t", "a", " ", "C", "o", "r", "p">>, <<"1", ".", " ", "A", "l", "p", "h", "a", " ", "C", "o", "r", "p", "\n", "2", ".", " ", "B", "e", "t", "a", " ", "C", "o", "r", "p">>, <<"A", "l", "p", "h", "a", " ", "C", "o", "r", "p", " ", "a", "n", "d", " ", "B", "e", "t", "a", " ", "C", "o", "r", "p">>, <<"-", " ", "I", "B", "M">> }

\* the body of every section but the one under study
LongDefaultBody(f) ==
    IF f \in ListFields THEN <<"-", " ", "A", "l", "p", "h", "a", " ", "C", "o", "r", "p", "\n", "-", " ", "B", "e", "t", "a", " ", "C", "o", "r", "p">>
    ELSE <<"T", "h", "i", "s", " ", "p", "l", "a", "i", "n", " ", "s", "e", "n", "t", "e", "n", "c", "e", " ", "h", "a", "s", " ", "m", "o", "r", "e", " ", "t", "h", "a", "n", " ", "f", "i", "f", "t", "y", " ", "c", "h", "a", "r", "a", "c", "t", "e", "r", "s", " ", "i", "n", " ", "i", "t", ".">>

EndToEndDrafts ==
    {[style |-> st, bodies |-> [f \in Fields |-> IF f = g THEN b ELSE LongDefaultBody(f)]] :
        st \in Styles, g \in Fields, b \in LongBodies \cup ListBodies}

InitEndToEnd ==
    /\ section_patterns = SectionPatterns
    /\ draft \in {d \in EndToEndDrafts :
                     \A f \in Fields : d.bodies[f] \in (IF f \in ListFields THEN ListBodies ELSE LongBodies)}
    /\ response = Render(draft.style, draft.bodies, 1)
    /\ ParseIdle
    /\ ListIdle
    /\ ConcIdle
    /\ SvcIdle

SpecEndToEnd == InitEndToEnd /\ [][Next]_vars

\* C14: a six-section response with well-formed headers, text bodies longer
\* than 50 characters and non-empty list bodies is parsed into six non-empty
\* fields, and validate_parsed_data reports every field as adequate
EndToEnd ==
    ( /\ pc = "validated"
      /\ \A f \in Fields \ ListFields : Len(draft.bodies[f]) > 50
      /\ \A f \in ListFields : draft.bodies[f] # <<>> )
    => \A f \in Fields : parsed_data[f].val # <<>> /\ validation[f] = TRUE
----------------------------------------------------------------------------
(* services/data_collector.py: DataCollector.collect_all_data.  Each
   _collect_from_source coroutine is a task of the event loop: the loop starts
   the tasks in the order gather received them, a started task is suspended in
   api.search until the search returns or raises, and collect_all_data resumes
   when every task is done. *)

\* an API key that is None or '' is falsy
NoKey == <<>>
KeyChoices == {NoKey, <<"k", "e", "y">>}

\* the sources _setup_apis may register, in the order it registers them;
\* needs names the api_keys field that has to be truthy, <<>> when none has to be
SourceTable ==
    << [name |-> <<"w", "e", "b", "_", "s", "e", "a", "r", "c", "h">>, needs |-> "google"],
       [name |-> <<"n", "e", "w", "s">>,       needs |-> "news"],
       [name |-> <<"a", "c", "a", "d", "e", "m", "i", "c">>,   needs |-> ""],
       [name |-> <<"p", "a", "t", "e", "n", "t", "s">>,    needs |-> ""],
       [name |-> <<"s", "o", "c", "i", "a", "l">>,     needs |-> "twitter"],
       [name |-> <<"m", "a", "r", "k", "e", "t">>,     needs |-> "market"] >>

Configured(keys, entry) == entry.needs = "" \/ keys[entry.needs] # NoKey

RECURSIVE SetupFrom(_, _)
SetupFrom(keys, i) ==
    IF i > Len(SourceTable) THEN <<>>
    ELSE (IF Configured(keys, SourceTable[i]) THEN <<SourceTable[i].name>> ELSE <<>>)
         \o SetupFrom(keys, i + 1)

\* self.sources after __init__
SetupApis(keys) == SetupFrom(keys, 1)

\* what api.search(topic) can do: return a list (empty after an error the API
\* client handled itself) or raise
Returned(v) == [kind |-> "return", val |-> v]
RaisedException == [kind |-> "raise", val |-> <<<<"E", "x", "c", "e", "p", "t", "i", "o", "n">>>>]
SearchOutcomes(name) == {Returned(<<name>>), Returned(<<>>), RaisedException}

\* _collect_from_source without its try/except
CollectFromSourceUnguarded(searched) == searched

\* _collect_from_source: the value of api.search, [] when it raised
CollectFromSource(searched) ==
    IF searched.kind = "raise" THEN Returned(<<>>) ELSE searched

\* asyncio.gather(*tasks, return_exceptions=True): values and exceptions, in task order
Gather(ts) == [i \in DOMAIN ts |-> ts[i].result]

\* isinstance(results[i], Exception)
IsException(r) == r.kind = "raise"

ResultKey(source_name) == source_name \o <<"_", "r", "e", "s", "u", "l", "t", "s">>

EmptyCombined ==
    [k \in {<<"w", "e", "b", "_", "r", "e", "s", "u", "l", "t", "s">>, <<"n", "e", "w", "s", "_", "r", "e", "s", "u", "l", "t", "s">>, <<"a", "c", "a", "d", "e", "m", "i", "c", "_", "r", "e", "s", "u", "l", "t", "s">>, <<"p", "a", "t", "e", "n", "t", "_", "r", "e", "s", "u", "l", "t", "s">>,
            <<"s", "o", "c", "i", "a", "l", "_", "r", "e", "s", "u", "l", "t", "s">>, <<"m", "a", "r", "k", "e", "t", "_", "r", "e", "s", "u", "l", "t", "s">>} |-> <<>>]

RECURSIVE CombineFrom(_, _, _, _)
\* the loop of lines 69-71 from index i on
CombineFrom(srcs, res, i, combined) ==
    IF i > Len(srcs) THEN combined
    ELSE CombineFrom(srcs, res, i + 1,
                     IF IsException(res[i]) THEN combined
                     ELSE (ResultKey(srcs[i]) :> res[i].val) @@ combined)

Combine(srcs, res) == CombineFrom(srcs, res, 1, EmptyCombined)

NoResult == [kind |-> "none", val |-> <<>>]
PendingTask == [state |-> "pending", searched |-> NoResult, result |-> NoResult]

\* collect_all_data up to its await: one coroutine per source, all handed to gather
CollectAllData ==
    /\ collect_pc = "idle"
    /\ tasks' = [i \in 1..Len(sources) |-> PendingTask]
    /\ collect_pc' = "gathering"
    /\ UNCHANGED <<api_keys, sources, results, combined_data, parseVars, section_patterns,
                   listVars, concVars, geminiVars, marketVars,
                   engineVars, helperVars>>

\* the event loop starts the next task: it runs up to await api.search(topic)
TaskStart(i) ==
    /\ collect_pc = "gathering"
    /\ tasks[i].state = "pending"
    /\ \A j \in 1..(i - 1) : tasks[j].state # "pending"
    /\ tasks' = [tasks EXCEPT ![i].state = "searching"]
    /\ UNCHANGED <<api_keys, sources, results, combined_data, collect_pc, parseVars,
                   section_patterns, listVars, concVars, geminiVars, marketVars,
                   engineVars, helperVars>>

\* the search of task i returns or raises, and _collect_from_source finishes
TaskFinish(i) ==
    /\ collect_pc = "gathering"
    /\ tasks[i].state = "searching"
    /\ \E searched \in SearchOutcomes(sources[i]) :
          tasks' = [tasks EXCEPT ![i] = [state |-> "done", searched |-> searched,
                                         result |-> CollectFromSource(searched)]]
    /\ UNCHANGED <<api_keys, sources, results, combined_data, collect_pc, parseVars,
                   section_patterns, listVars, concVars, geminiVars, marketVars,
                   engineVars, helperVars>>

\* every task is done: gather returns and collect_all_data runs to its return
GatherReturns ==
    /\ collect_pc = "gathering"
    /\ \A i \in DOMAIN tasks : tasks[i].state = "done"
    /\ results' = Gather(tasks)
    /\ combined_data' = Combine(sources, Gather(tasks))
    /\ collect_pc' = "returned"
    /\ UNCHANGED <<api_keys, sources, tasks, parseVars, section_patterns, listVars, concVars,
                   geminiVars, marketVars,
                   engineVars, helperVars>>

InitCollect ==
    /\ section_patterns = SectionPatterns
    /\ draft = <<>>
    /\ response = <<>>
    /\ ParseIdle
    /\ ListIdle
    /\ ConcIdle
    /\ EngineIdle
    /\ HelperIdle
    /\ GeminiIdle
    /\ MarketIdle
    /\ api_keys \in [{"google", "news", "twitter", "market"} -> KeyChoices]
    /\ sources = SetupApis(api_keys)
    /\ tasks = <<>>
    /\ results = <<>>
    /\ combined_data = <<>>
    /\ collect_pc = "idle"

NextCollect ==
    \/ CollectAllData
    \/ \E i \in DOMAIN tasks : TaskStart(i)
    \/ \E i \in DOMAIN tasks : TaskFinish(i)
    \/ GatherReturns

SpecCollect == InitCollect /\ [][NextCollect]_vars

\* C15: every configured source gets a task before collect_all_data awaits,
\* the call never raises, and the record it returns holds under
\* "<source>_results" the list the source's search returned, [] when the
\* search raised, whatever the other searches did
FailureIsolation ==
    /\ collect_pc # "raised"
    /\ collect_pc = "gathering" => DOMAIN tasks = 1..Len(sources)
    /\ collect_pc = "returned" =>
          \A i \in 1..Len(sources) :
              /\ ResultKey(sources[i]) \in DOMAIN combined_data
              /\ combined_data[ResultKey(sources[i])] =
                    (IF tasks[i].searched.kind = "raise" THEN <<>> ELSE tasks[i].searched.val)

FailureIsolationWitness ==
    /\ collect_pc = "returned"
    /\ Len(sources) = 6
    /\ tasks[1].searched = RaisedException
    /\ tasks[4].searched = RaisedException
    /\ tasks[3].searched = Returned(<<<<"a", "c", "a", "d", "e", "m", "i", "c">>>>)
    /\ combined_data[<<"a", "c", "a", "d", "e", "m", "i", "c", "_", "r", "e", "s", "u", "l", "t", "s">>] = <<<<"a", "c", "a", "d", "e", "m", "i", "c">>>>
    /\ combined_data[<<"w", "e", "b", "_", "s", "e", "a", "r", "c", "h", "_", "r", "e", "s", "u", "l", "t", "s">>] = <<>>

\* the six keys the combined record starts with
CombinedKeys ==
    {<<"w", "e", "b", "_", "r", "e", "s", "u", "l", "t", "s">>, <<"n", "e", "w", "s", "_", "r", "e", "s", "u", "l", "t", "s">>, <<"a", "c", "a", "d", "e", "m", "i", "c", "_", "r", "e", "s", "u", "l", "t", "s">>, <<"p", "a", "t", "e", "n", "t", "_", "r", "e", "s", "u", "l", "t", "s">>, <<"s", "o", "c", "i", "a", "l", "_", "r", "e", "s", "u", "l", "t", "s">>,
     <<"m", "a", "r", "k", "e", "t", "_", "r", "e", "s", "u", "l", "t", "s">>}

\* the key among the six that belongs to a source
SourceKey(source_name) ==
    CASE source_name = <<"w", "e", "b", "_", "s", "e", "a", "r", "c", "h">> -> <<"w", "e", "b", "_", "r", "e", "s", "u", "l", "t", "s">>
      [] source_name = <<"p", "a", "t", "e", "n", "t", "s">> -> <<"p", "a", "t", "e", "n", "t", "_", "r", "e", "s", "u", "l", "t", "s">>
      [] OTHER -> source_name \o <<"_", "r", "e", "s", "u", "l", "t", "s">>

\* C29: the returned record has exactly the six keys; the list a configured
\* source returned is under that source's key among them, and the key of an
\* unconfigured source holds the empty list
CombinedShape ==
    collect_pc = "returned" =>
        /\ DOMAIN combined_data = CombinedKeys
        /\ \A i \in 1..Len(sources) :
              tasks[i].searched.kind = "return" =>
                  combined_data[SourceKey(sources[i])] = tasks[i].searched.val
        /\ \A k \in CombinedKeys \ {SourceKey(sources[i]) : i \in 1..Len(sources)} :
              combined_data[k] = <<>>
----------------------------------------------------------------------------
(* services/gemini_client.py: GeminiClient.generate_response, and the test
   its callers apply to the string it returns *)

Prompts == { <<"A", "I">>, <<"E", "x", "p", "l", "a", "i", "n", " ", "a", "r", "t", "i", "f", "i", "c", "i", "a", "l", " ", "i", "n", "t", "e", "l", "l", "i", "g", "e", "n", "c", "e", " ", "i", "n", " ", "2", " ", "s", "e", "n", "t", "e", "n", "c", "e", "s", ".">>, <<"q", "u", "a", "n", "t", "u", "m", " ", "c", "o", "m", "p", "u", "t", "i", "n", "g">> }

\* response.status values other than 200, as str() prints them
ErrorStatuses == { <<"4", "0", "0">>, <<"4", "2", "9">>, <<"5", "0", "0">> }
ErrorTexts == { <<>>, <<"q", "u", "o", "t", "a", " ", "e", "x", "c", "e", "e", "d", "e", "d">> }
\* str(e) of the exceptions the request can raise
ExceptionTexts == { <<>>, <<"C", "a", "n", "n", "o", "t", " ", "c", "o", "n", "n", "e", "c", "t", " ", "t", "o", " ", "h", "o", "s", "t">> }
Contents == { <<>>, <<"A", "I", " ", "i", "s", " ", "t", "h", "e", " ", "s", "i", "m", "u", "l", "a", "t", "i", "o", "n", " ", "o", "f", " ", "h", "u", "m", "a", "n", " ", "i", "n", "t", "e", "l", "l", "i", "g", "e", "n", "c", "e", ".">>, <<"E", "r", "r", "o", "r", "s", " ", "i", "n", " ", "A", "I", " ", "s", "y", "s", "t", "e", "m", "s", " ", "a", "r", "e", " ", "c", "o", "m", "m", "o", "n", ".">> }

\* what the POST comes to.  kind: "timeout" (asyncio.TimeoutError), "exception"
\* (any other exception of the request) or "status"; for status 200, shape
\* tells what response.json() gives: "invalid_json" (json() raises),
\* "no_candidates", "empty_candidates", "no_content", "no_parts",
\* "empty_parts", "no_text" or "text"
Http(kind, status, shape, txt) == [kind |-> kind, status |-> status, shape |-> shape, text |-> txt]

HttpOutcomes ==
    {Http("timeout", <<>>, "", <<>>)}
    \cup {Http("exception", <<>>, "", m) : m \in ExceptionTexts}
    \cup {Http("status", s, "", t) : s \in ErrorStatuses, t \in ErrorTexts}
    \cup {Http("status", <<"2", "0", "0">>, "invalid_json", m) : m \in ExceptionTexts}
    \cup {Http("status", <<"2", "0", "0">>, sh, <<>>) :
             sh \in {"no_candidates", "empty_candidates", "no_content", "no_parts", "empty_parts", "no_text"}}
    \cup {Http("status", <<"2", "0", "0">>, "text", t) : t \in Contents}

\* result.get("candidates", [{}])[0].get("content", {}).get("parts", [{}])[0].get("text", "")
ExtractContent(h) ==
    CASE h.shape = "text" -> Returned(h.text)
      [] h.shape \in {"no_content", "no_parts", "no_text"} -> Returned(<<>>)
      [] h.shape = "empty_parts" -> [kind |-> "raise", val |-> <<"l", "i", "s", "t", " ", "i", "n", "d", "e", "x", " ", "o", "u", "t", " ", "o", "f", " ", "r", "a", "n", "g", "e">>]

\* f"API Error {response.status}: {error_text}"
StatusError(h) == <<"A", "P", "I", " ", "E", "r", "r", "o", "r", " ">> \o h.status \o <<":", " ">> \o h.text

\* the body of the try block once the POST has answered
Answered(h) ==
    IF h.status = <<"2", "0", "0">>
    THEN CASE h.shape = "invalid_json" -> [kind |-> "raise", val |-> h.text]
           [] h.shape \in {"no_candidates", "empty_candidates"} ->
                Returned(<<"E", "r", "r", "o", "r", ":", " ", "R", "e", "s", "p", "o", "n", "s", "e", " ", "w", "a", "s", " ", "b", "l", "o", "c", "k", "e", "d", " ", "b", "y", " ", "s", "a", "f", "e", "t", "y", " ", "f", "i", "l", "t", "e", "r", "s", ".", " ", "P", "l", "e", "a", "s", "e", " ", "t", "r", "y", " ", "r", "e", "p", "h", "r", "a", "s", "i", "n", "g", " ", "y", "o", "u", "r", " ", "q", "u", "e", "r", "y", ".">>)
           [] OTHER -> ExtractContent(h)
    ELSE Returned(StatusError(h))

\* except Exception as e: return f"Error: {str(e)}"
CatchException(r) == IF r.kind = "raise" THEN Returned(<<"E", "r", "r", "o", "r", ":", " ">> \o r.val) ELSE r

GenerateResponse(h) ==
    CASE h.kind = "timeout" ->
           Returned(<<"E", "r", "r", "o", "r", ":", " ", "R", "e", "q", "u", "e", "s", "t", " ", "t", "i", "m", "e", "o", "u", "t", ".", " ", "T", "h", "e", " ", "A", "P", "I", " ", "i", "s", " ", "t", "a", "k", "i", "n", "g", " ", "t", "o", "o", " ", "l", "o", "n", "g", " ", "t", "o", " ", "r", "e", "s", "p", "o", "n", "d", ".">>)
      [] h.kind = "exception" -> CatchException([kind |-> "raise", val |-> h.text])
      [] h.kind = "status" -> CatchException(Answered(h))

\* str.startswith
StartsWith(s, prefix) == Len(s) >= Len(prefix) /\ SubSeq(s, 1, Len(prefix)) = prefix

\* if response and not response.startswith("Error")
CallerVerdict(r) == IF r # <<>> /\ ~StartsWith(r, <<"E", "r", "r", "o", "r">>) THEN "SUCCESS" ELSE "FAILED"

\* generate_response up to the await of session.post
GenerateCall ==
    /\ gemini_pc = "idle"
    /\ gemini_pc' = "posting"
    /\ UNCHANGED <<prompt, gemini_http, gemini_response, gemini_verdict, parseVars,
                   section_patterns, listVars, concVars, collectVars, marketVars,
                   engineVars, helperVars>>

\* the POST answers, times out or raises, and generate_response runs to its end
GenerateReturn ==
    /\ gemini_pc = "posting"
    /\ \E h \in HttpOutcomes :
          /\ gemini_http' = h
          /\ gemini_response' = GenerateResponse(h)
    /\ gemini_pc' = "done"
    /\ UNCHANGED <<prompt, gemini_verdict, parseVars, section_patterns, listVars, concVars,
                   collectVars, marketVars,
                   engineVars, helperVars>>

\* test_gemini_client and test_gemini_comprehensive read the returned string
CallerTest ==
    /\ gemini_pc = "done"
    /\ gemini_response.kind = "return"
    /\ gemini_verdict' = CallerVerdict(gemini_response.val)
    /\ gemini_pc' = "tested"
    /\ UNCHANGED <<prompt, gemini_http, gemini_response, parseVars, section_patterns, listVars,
                   concVars, collectVars, marketVars,
                   engineVars, helperVars>>

InitGemini ==
    /\ section_patterns = SectionPatterns
    /\ draft = <<>>
    /\ response = <<>>
    /\ ParseIdle
    /\ ListIdle
    /\ ConcIdle
    /\ EngineIdle
    /\ HelperIdle
    /\ CollectIdle
    /\ MarketIdle
    /\ prompt \in Prompts
    /\ gemini_http = <<>>
    /\ gemini_response = <<>>
    /\ gemini_verdict = ""
    /\ gemini_pc = "idle"

NextGemini == GenerateCall \/ GenerateReturn \/ CallerTest

SpecGemini == InitGemini /\ [][NextGemini]_vars

\* a failure outcome: timeout, exception, non-200 status, or a 200 answer
\* without candidates (blocked by the safety filters)
FailureOutcome(h) ==
    \/ h.kind \in {"timeout", "exception"}
    \/ h.kind = "status" /\ h.status # <<"2", "0", "0">>
    \/ h.kind = "status" /\ h.status = <<"2", "0", "0">> /\ h.shape \in {"no_candidates", "empty_candidates"}

\* C16: after every failure outcome generate_response returns, and does not
\* raise, a string that starts with "Error"
GeminiFailuresFlagged ==
    (gemini_pc \in {"done", "tested"} /\ FailureOutcome(gemini_http))
    => (gemini_response.kind = "return" /\ StartsWith(gemini_response.val, <<"E", "r", "r", "o", "r">>))
----------------------------------------------------------------------------
(* services/market_service.py: MarketService.get_market_data *)

NoneValue == [type |-> "none", val |-> <<>>]
Dict(d) == [type |-> "dict", val |-> d]

\* topics; None stands for an argument that is not a str
Topics ==
    { Str(<<"a", "r", "t", "i", "f", "i", "c", "i", "a", "l", " ", "i", "n", "t", "e", "l", "l", "i", "g", "e", "n", "c", "e">>), Str(<<"A", "I", " ", "t", "r", "e", "n", "d", "s">>), Str(<<"P", "y", "t", "h", "o", "n", " ", "t", "o", "o", "l", "s">>), Str(<<"b", "l", "o", "c", "k", "c", "h", "a", "i", "n">>),
      Str(<<"d", "o", "m", "a", "i", "n", " ", "r", "o", "b", "o", "t", "i", "c", "s">>), Str(<<"M", "a", "c", "h", "i", "n", "e", " ", "L", "e", "a", "r", "n", "i", "n", "g">>), Str(<<>>), NoneValue }

\* datetime.now().isoformat()
Timestamps == { <<"2", "0", "2", "5", "-", "0", "1", "-", "0", "1", "T", "0", "9", ":", "3", "0", ":", "0", "0", ".", "0", "0", "0", "0", "0", "1">>, <<"2", "0", "2", "5", "-", "0", "6", "-", "3", "0", "T", "2", "3", ":", "5", "9", ":", "5", "9", ".", "9", "9", "9", "9", "9", "9">> }

\* the GET answers with at most MaxNews news items
MaxNews == 11

\* what the GET of _analyze_market_trends comes to.  kind: "timeout",
\* "exception" or "status"; for status 200, shape tells what response.json()
\* gives: "list" (of count items), "object" (not a list) or "invalid_json"
MarketHttp(kind, status, shape, count) ==
    [kind |-> kind, status |-> status, shape |-> shape, count |-> count]

MarketHttpOutcomes ==
    {MarketHttp("timeout", 0, "", 0), MarketHttp("exception", 0, "", 0)}
    \cup {MarketHttp("status", s, "", 0) : s \in {401, 429, 500}}
    \cup {MarketHttp("status", 200, sh, 0) : sh \in {"object", "invalid_json"}}
    \cup {MarketHttp("status", 200, "list", n) : n \in 0..MaxNews}

\* the text an f-string puts in for {topic}
Format(v) == IF v.type = "none" THEN <<"N", "o", "n", "e">> ELSE v.val

DigitChars == <<"0", "1", "2", "3", "4", "5", "6", "7", "8", "9">>

RECURSIVE Decimal(_)
\* str() of a natural number
Decimal(n) == IF n < 10 THEN <<DigitChars[n + 1]>> ELSE Decimal(n \div 10) \o <<DigitChars[(n % 10) + 1]>>

ToLower == [c \in UpperSet |-> LowerCase[CHOOSE i \in 1..26 : UpperCase[i] = c]]

\* str.lower()
Lower(s) == [i \in 1..Len(s) |-> IF s[i] \in UpperSet THEN ToLower[s[i]] ELSE s[i]]

\* key in s, for strings
Contains(key, s) == \E i \in 1..(Len(s) - Len(key) + 1) : SubSeq(s, i, i + Len(key) - 1) = key

\* the keys of the competitors and insights dictionaries, in their order
SectorKeys == << <<"a", "i">>, <<"p", "y", "t", "h", "o", "n">>, <<"b", "l", "o", "c", "k", "c", "h", "a", "i", "n">>, <<"m", "a", "c", "h", "i", "n", "e", " ", "l", "e", "a", "r", "n", "i", "n", "g">>, <<"r", "o", "b", "o", "t", "i", "c", "s">> >>

\* _analyze_market_trends: the sentence for the answer, with its own except branch
AnalyzeMarketTrends(t, h) ==
    IF h.kind = "status" /\ h.status = 200 /\ h.shape # "invalid_json"
    THEN <<"M", "a", "r", "k", "e", "t", " ", "a", "n", "a", "l", "y", "s", "i", "s", " ", "f", "o", "r", " ">> \o Format(t) \o <<":", " ", "R", "e", "c", "e", "n", "t", " ", "a", "c", "t", "i", "v", "i", "t", "y", " ", "s", "h", "o", "w", "s", " ">>
         \o Decimal(IF h.shape = "list" THEN h.count ELSE 0)
         \o <<" ", "n", "e", "w", "s", " ", "i", "t", "e", "m", "s", " ", "i", "n", " ", "t", "h", "e", " ", "l", "a", "s", "t", " ", "3", "0", " ", "d", "a", "y", "s", ".", " ", "T", "h", "e", " ", "m", "a", "r", "k", "e", "t", " ", "i", "s", " ", "s", "h", "o", "w", "i", "n", "g", " ", "a", "c", "t", "i", "v", "e", " ", "i", "n", "t", "e", "r", "e", "s", "t", " ", "i", "n", " ", "t", "h", "i", "s", " ", "s", "e", "c", "t", "o", "r", " ", "w", "i", "t", "h", " ", "g", "r", "o", "w", "i", "n", "g", " ", "i", "n", "v", "e", "s", "t", "o", "r", " ", "a", "t", "t", "e", "n", "t", "i", "o", "n", ".">>
    ELSE IF h.kind = "status" /\ h.status # 200
    THEN <<"M", "a", "r", "k", "e", "t", " ", "a", "n", "a", "l", "y", "s", "i", "s", " ", "f", "o", "r", " ">> \o Format(t)
         \o <<":", " ", "C", "u", "r", "r", "e", "n", "t", " ", "m", "a", "r", "k", "e", "t", " ", "c", "o", "n", "d", "i", "t", "i", "o", "n", "s", " ", "s", "h", "o", "w", " ", "m", "o", "d", "e", "r", "a", "t", "e", " ", "a", "c", "t", "i", "v", "i", "t", "y", " ", "w", "i", "t", "h", " ", "p", "o", "t", "e", "n", "t", "i", "a", "l", " ", "f", "o", "r", " ", "g", "r", "o", "w", "t", "h", " ", "i", "n", " ", "t", "h", "i", "s", " ", "e", "m", "e", "r", "g", "i", "n", "g", " ", "s", "e", "c", "t", "o", "r", ".">>
    ELSE <<"M", "a", "r", "k", "e", "t", " ", "a", "n", "a", "l", "y", "s", "i", "s", " ", "f", "o", "r", " ">> \o Format(t)
         \o <<":", " ", "I", "n", "d", "u", "s", "t", "r", "y", " ", "s", "h", "o", "w", "s", " ", "s", "t", "e", "a", "d", "y", " ", "g", "r", "o", "w", "t", "h", " ", "p", "o", "t", "e", "n", "t", "i", "a", "l", " ", "w", "i", "t", "h", " ", "i", "n", "c", "r", "e", "a", "s", "i", "n", "g", " ", "m", "a", "r", "k", "e", "t", " ", "a", "d", "o", "p", "t", "i", "o", "n", " ", "a", "n", "d", " ", "t", "e", "c", "h", "n", "o", "l", "o", "g", "i", "c", "a", "l", " ", "a", "d", "v", "a", "n", "c", "e", "m", "e", "n", "t", ".">>

GetKeyMetrics ==
    Dict([market_size |-> Str(<<"G", "r", "o", "w", "i", "n", "g", " ", "m", "a", "r", "k", "e", "t", " ", "w", "i", "t", "h", " ", "e", "x", "p", "a", "n", "d", "i", "n", "g", " ", "o", "p", "p", "o", "r", "t", "u", "n", "i", "t", "i", "e", "s">>),
          growth_rate |-> Str(<<"M", "o", "d", "e", "r", "a", "t", "e", " ", "t", "o", " ", "h", "i", "g", "h", " ", "g", "r", "o", "w", "t", "h", " ", "p", "o", "t", "e", "n", "t", "i", "a", "l">>),
          competition_level |-> Str(<<"M", "o", "d", "e", "r", "a", "t", "e", " ", "c", "o", "m", "p", "e", "t", "i", "t", "i", "o", "n", " ", "w", "i", "t", "h", " ", "r", "o", "o", "m", " ", "f", "o", "r", " ", "i", "n", "n", "o", "v", "a", "t", "i", "o", "n">>),
          investment_activity |-> Str(<<"A", "c", "t", "i", "v", "e", " ", "i", "n", "v", "e", "s", "t", "m", "e", "n", "t", " ", "i", "n", "t", "e", "r", "e", "s", "t", " ", "f", "r", "o", "m", " ", "v", "e", "n", "t", "u", "r", "e", " ", "c", "a", "p", "i", "t", "a", "l">>),
          regulatory_environment |-> Str(<<"S", "u", "p", "p", "o", "r", "t", "i", "v", "e", " ", "r", "e", "g", "u", "l", "a", "t", "o", "r", "y", " ", "f", "r", "a", "m", "e", "w", "o", "r", "k">>)])

Competitors ==
    << << <<"O", "p", "e", "n", "A", "I">>, <<"G", "o", "o", "g", "l", "e", " ", "D", "e", "e", "p", "M", "i", "n", "d">>, <<"M", "i", "c", "r", "o", "s", "o", "f", "t", " ", "A", "I">>, <<"A", "m", "a", "z", "o", "n", " ", "A", "I">>, <<"M", "e", "t", "a", " ", "A", "I">> >>,
       << <<"P", "y", "t", "h", "o", "n", " ", "S", "o", "f", "t", "w", "a", "r", "e", " ", "F", "o", "u", "n", "d", "a", "t", "i", "o", "n">>, <<"J", "e", "t", "B", "r", "a", "i", "n", "s">>, <<"A", "n", "a", "c", "o", "n", "d", "a">>, <<"G", "o", "o", "g", "l", "e">>, <<"M", "i", "c", "r", "o", "s", "o", "f", "t">> >>,
       << <<"E", "t", "h", "e", "r", "e", "u", "m", " ", "F", "o", "u", "n", "d", "a", "t", "i", "o", "n">>, <<"B", "i", "n", "a", "n", "c", "e">>, <<"C", "o", "i", "n", "b", "a", "s", "e">>, <<"R", "i", "p", "p", "l", "e">>, <<"C", "a", "r", "d", "a", "n", "o">> >>,
       << <<"T", "e", "n", "s", "o", "r", "F", "l", "o", "w">>, <<"P", "y", "T", "o", "r", "c", "h">>, <<"S", "c", "i", "k", "i", "t", "-", "l", "e", "a", "r", "n">>, <<"K", "e", "r", "a", "s">>, <<"H", "u", "g", "g", "i", "n", "g", " ", "F", "a", "c", "e">> >>,
       << <<"B", "o", "s", "t", "o", "n", " ", "D", "y", "n", "a", "m", "i", "c", "s">>, <<"i", "R", "o", "b", "o", "t">>, <<"A", "B", "B">>, <<"K", "U", "K", "A">>, <<"U", "n", "i", "v", "e", "r", "s", "a", "l", " ", "R", "o", "b", "o", "t", "s">> >> >>

Insights ==
    << <<"A", "I", " ", "s", "e", "c", "t", "o", "r", " ", "s", "h", "o", "w", "s", " ", "s", "t", "r", "o", "n", "g", " ", "i", "n", "v", "e", "s", "t", "m", "e", "n", "t", " ", "p", "o", "t", "e", "n", "t", "i", "a", "l", " ", "w", "i", "t", "h", " ", "g", "r", "o", "w", "i", "n", "g", " ", "e", "n", "t", "e", "r", "p", "r", "i", "s", "e", " ", "a", "d", "o", "p", "t", "i", "o", "n", ",", " ", "f", "o", "c", "u", "s", " ", "o", "n", " ", "A", "I", " ", "i", "n", "f", "r", "a", "s", "t", "r", "u", "c", "t", "u", "r", "e", " ", "a", "n", "d", " ", "a", "p", "p", "l", "i", "c", "a", "t", "i", "o", "n", "s", ".">>,
       <<"P", "y", "t", "h", "o", "n", " ", "e", "c", "o", "s", "y", "s", "t", "e", "m", " ", "c", "o", "n", "t", "i", "n", "u", "e", "s", " ", "t", "o", " ", "g", "r", "o", "w", " ", "w", "i", "t", "h", " ", "s", "t", "r", "o", "n", "g", " ", "d", "e", "v", "e", "l", "o", "p", "e", "r", " ", "a", "d", "o", "p", "t", "i", "o", "n", ",", " ", "o", "p", "p", "o", "r", "t", "u", "n", "i", "t", "i", "e", "s", " ", "i", "n", " ", "d", "a", "t", "a", " ", "s", "c", "i", "e", "n", "c", "e", " ", "a", "n", "d", " ", "w", "e", "b", " ", "d", "e", "v", "e", "l", "o", "p", "m", "e", "n", "t", ".">>,
       <<"B", "l", "o", "c", "k", "c", "h", "a", "i", "n", " ", "t", "e", "c", "h", "n", "o", "l", "o", "g", "y", " ", "g", "a", "i", "n", "i", "n", "g", " ", "m", "a", "i", "n", "s", "t", "r", "e", "a", "m", " ", "a", "d", "o", "p", "t", "i", "o", "n", ",", " ", "o", "p", "p", "o", "r", "t", "u", "n", "i", "t", "i", "e", "s", " ", "i", "n", " ", "D", "e", "F", "i", ",", " ", "N", "F", "T", "s", ",", " ", "a", "n", "d", " ", "e", "n", "t", "e", "r", "p", "r", "i", "s", "e", " ", "s", "o", "l", "u", "t", "i", "o", "n", "s", ".">>,
       <<"M", "L", " ", "m", "a", "r", "k", "e", "t", " ", "e", "x", "p", "a", "n", "d", "i", "n", "g", " ", "r", "a", "p", "i", "d", "l", "y", " ", "w", "i", "t", "h", " ", "a", "p", "p", "l", "i", "c", "a", "t", "i", "o", "n", "s", " ", "a", "c", "r", "o", "s", "s", " ", "i", "n", "d", "u", "s", "t", "r", "i", "e", "s", ",", " ", "f", "o", "c", "u", "s", " ", "o", "n", " ", "a", "u", "t", "o", "m", "a", "t", "i", "o", "n", " ", "a", "n", "d", " ", "p", "r", "e", "d", "i", "c", "t", "i", "v", "e", " ", "a", "n", "a", "l", "y", "t", "i", "c", "s", ".">>,
       <<"R", "o", "b", "o", "t", "i", "c", "s", " ", "i", "n", "d", "u", "s", "t", "r", "y", " ", "g", "r", "o", "w", "i", "n", "g", " ", "w", "i", "t", "h", " ", "a", "u", "t", "o", "m", "a", "t", "i", "o", "n", " ", "t", "r", "e", "n", "d", "s", ",", " ", "o", "p", "p", "o", "r", "t", "u", "n", "i", "t", "i", "e", "s", " ", "i", "n", " ", "m", "a", "n", "u", "f", "a", "c", "t", "u", "r", "i", "n", "g", ",", " ", "h", "e", "a", "l", "t", "h", "c", "a", "r", "e", ",", " ", "a", "n", "d", " ", "s", "e", "r", "v", "i", "c", "e", " ", "r", "o", "b", "o", "t", "s", ".">> >>

\* the first dictionary key found in the lowered topic, 0 when there is none
SectorOf(t) ==
    LET hits == {k \in 1..Len(SectorKeys) : Contains(SectorKeys[k], Lower(t.val))}
    IN  IF hits = {} THEN 0 ELSE CHOOSE k \in hits : \A j \in hits : k <= j

\* _get_competitor_data; topic.lower() raises when topic is not a str
GetCompetitorData(t) ==
    IF t.type # "str" THEN [kind |-> "raise", val |-> <<"A", "t", "t", "r", "i", "b", "u", "t", "e", "E", "r", "r", "o", "r">>]
    ELSE Returned(List(IF SectorOf(t) = 0
                       THEN << <<"L", "e", "a", "d", "i", "n", "g", " ", "c", "o", "m", "p", "a", "n", "i", "e", "s", " ", "i", "n", " ", "t", "h", "e", " ", "s", "e", "c", "t", "o", "r">>, <<"E", "s", "t", "a", "b", "l", "i", "s", "h", "e", "d", " ", "m", "a", "r", "k", "e", "t", " ", "p", "l", "a", "y", "e", "r", "s">>, <<"E", "m", "e", "r", "g", "i", "n", "g", " ", "s", "t", "a", "r", "t", "u", "p", "s">> >>
                       ELSE Competitors[SectorOf(t)]))

\* _get_investment_insights
GetInvestmentInsights(t) ==
    IF t.type # "str" THEN [kind |-> "raise", val |-> <<"A", "t", "t", "r", "i", "b", "u", "t", "e", "E", "r", "r", "o", "r">>]
    ELSE Returned(Str(IF SectorOf(t) = 0
                      THEN <<"I", "n", "v", "e", "s", "t", "m", "e", "n", "t", " ", "o", "p", "p", "o", "r", "t", "u", "n", "i", "t", "i", "e", "s", " ", "i", "n", " ">> \o Format(t)
                           \o <<" ", "s", "e", "c", "t", "o", "r", " ", "i", "n", "c", "l", "u", "d", "e", " ", "e", "a", "r", "l", "y", "-", "s", "t", "a", "g", "e", " ", "s", "t", "a", "r", "t", "u", "p", "s", ",", " ", "e", "s", "t", "a", "b", "l", "i", "s", "h", "e", "d", " ", "c", "o", "m", "p", "a", "n", "i", "e", "s", " ", "e", "x", "p", "a", "n", "d", "i", "n", "g", " ", "i", "n", "t", "o", " ", "n", "e", "w", " ", "m", "a", "r", "k", "e", "t", "s", ",", " ", "a", "n", "d", " ", "i", "n", "f", "r", "a", "s", "t", "r", "u", "c", "t", "u", "r", "e", " ", "d", "e", "v", "e", "l", "o", "p", "m", "e", "n", "t", ".">>
                      ELSE Insights[SectorOf(t)]))

\* _get_mock_market_data
GetMockMarketData(t, now) ==
    [topic |-> t,
     timestamp |-> Str(now),
     market_analysis |-> Str(<<"M", "a", "r", "k", "e", "t", " ", "a", "n", "a", "l", "y", "s", "i", "s", " ", "f", "o", "r", " ">> \o Format(t)
         \o <<":", " ", "T", "h", "e", " ", "i", "n", "d", "u", "s", "t", "r", "y", " ", "s", "h", "o", "w", "s", " ", "s", "t", "r", "o", "n", "g", " ", "g", "r", "o", "w", "t", "h", " ", "p", "o", "t", "e", "n", "t", "i", "a", "l", " ", "w", "i", "t", "h", " ", "i", "n", "c", "r", "e", "a", "s", "i", "n", "g", " ", "m", "a", "r", "k", "e", "t", " ", "a", "d", "o", "p", "t", "i", "o", "n", ".", " ", "K", "e", "y", " ", "t", "r", "e", "n", "d", "s", " ", "i", "n", "c", "l", "u", "d", "e", " ", "d", "i", "g", "i", "t", "a", "l", " ", "t", "r", "a", "n", "s", "f", "o", "r", "m", "a", "t", "i", "o", "n", ",", " ", "a", "u", "t", "o", "m", "a", "t", "i", "o", "n", ",", " ", "a", "n", "d", " ", "i", "n", "n", "o", "v", "a", "t", "i", "o", "n", " ", "d", "r", "i", "v", "i", "n", "g", " ", "m", "a", "r", "k", "e", "t", " ", "e", "x", "p", "a", "n", "s", "i", "o", "n", ".">>),
     key_metrics |->
         Dict([market_size |-> Str(<<"L", "a", "r", "g", "e", " ", "a", "n", "d", " ", "g", "r", "o", "w", "i", "n", "g", " ", "m", "a", "r", "k", "e", "t">>),
               growth_rate |-> Str(<<"H", "i", "g", "h", " ", "g", "r", "o", "w", "t", "h", " ", "p", "o", "t", "e", "n", "t", "i", "a", "l">>),
               competition_level |-> Str(<<"M", "o", "d", "e", "r", "a", "t", "e", " ", "t", "o", " ", "h", "i", "g", "h", " ", "c", "o", "m", "p", "e", "t", "i", "t", "i", "o", "n">>),
               investment_activity |-> Str(<<"A", "c", "t", "i", "v", "e", " ", "i", "n", "v", "e", "s", "t", "m", "e", "n", "t", " ", "i", "n", "t", "e", "r", "e", "s", "t">>),
               regulatory_environment |-> Str(<<"E", "v", "o", "l", "v", "i", "n", "g", " ", "r", "e", "g", "u", "l", "a", "t", "o", "r", "y", " ", "l", "a", "n", "d", "s", "c", "a", "p", "e">>)]),
     competitor_analysis |->
         List(<< <<"M", "a", "j", "o", "r", " ", "e", "s", "t", "a", "b", "l", "i", "s", "h", "e", "d", " ", "p", "l", "a", "y", "e", "r", "s">>, <<"E", "m", "e", "r", "g", "i", "n", "g", " ", "s", "t", "a", "r", "t", "u", "p", "s">>, <<"I", "n", "t", "e", "r", "n", "a", "t", "i", "o", "n", "a", "l", " ", "c", "o", "m", "p", "e", "t", "i", "t", "o", "r", "s">>,
                 <<"T", "e", "c", "h", "n", "o", "l", "o", "g", "y", " ", "l", "e", "a", "d", "e", "r", "s">>, <<"I", "n", "n", "o", "v", "a", "t", "i", "o", "n", "-", "f", "o", "c", "u", "s", "e", "d", " ", "c", "o", "m", "p", "a", "n", "i", "e", "s">> >>),
     investment_opportunities |-> Str(<<"I", "n", "v", "e", "s", "t", "m", "e", "n", "t", " ", "o", "p", "p", "o", "r", "t", "u", "n", "i", "t", "i", "e", "s", " ", "i", "n", " ">> \o Format(t)
         \o <<" ", "i", "n", "c", "l", "u", "d", "e", " ", "e", "a", "r", "l", "y", "-", "s", "t", "a", "g", "e", " ", "c", "o", "m", "p", "a", "n", "i", "e", "s", ",", " ", "g", "r", "o", "w", "t", "h", "-", "s", "t", "a", "g", "e", " ", "b", "u", "s", "i", "n", "e", "s", "s", "e", "s", ",", " ", "a", "n", "d", " ", "e", "s", "t", "a", "b", "l", "i", "s", "h", "e", "d", " ", "p", "l", "a", "y", "e", "r", "s", " ", "e", "x", "p", "a", "n", "d", "i", "n", "g", " ", "i", "n", "t", "o", " ", "n", "e", "w", " ", "m", "a", "r", "k", "e", "t", "s", ".", " ", "F", "o", "c", "u", "s", " ", "a", "r", "e", "a", "s", " ", "i", "n", "c", "l", "u", "d", "e", " ", "t", "e", "c", "h", "n", "o", "l", "o", "g", "y", " ", "i", "n", "n", "o", "v", "a", "t", "i", "o", "n", ",", " ", "m", "a", "r", "k", "e", "t", " ", "e", "x", "p", "a", "n", "s", "i", "o", "n", ",", " ", "a", "n", "d", " ", "s", "t", "r", "a", "t", "e", "g", "i", "c", " ", "p", "a", "r", "t", "n", "e", "r", "s", "h", "i", "p", "s", ".">>)]

\* the dictionary display of lines 30-37: a raise of one of the awaited helpers leaves it
BuildMarketData(t, h, now) ==
    IF GetCompetitorData(t).kind = "raise" THEN GetCompetitorData(t)
    ELSE IF GetInvestmentInsights(t).kind = "raise" THEN GetInvestmentInsights(t)
    ELSE Returned([topic |-> t,
                   timestamp |-> Str(now),
                   market_analysis |-> Str(AnalyzeMarketTrends(t, h)),
                   key_metrics |-> GetKeyMetrics,
                   competitor_analysis |-> GetCompetitorData(t).val,
                   investment_opportunities |-> GetInvestmentInsights(t).val])

\* get_market_data without its except clause
MarketUncaught(built, t, now) == built

\* except Exception: return self._get_mock_market_data(topic)
MarketCaught(built, t, now) ==
    IF built.kind = "raise" THEN Returned(GetMockMarketData(t, now)) ELSE built

\* get_market_data up to its first await: the mock record when no key is configured
MarketCall ==
    /\ market_pc = "idle"
    /\ IF market_key = NoKey
       THEN /\ \E now \in Timestamps : market_data' = Returned(GetMockMarketData(topic, now))
            /\ market_pc' = "returned"
       ELSE /\ market_pc' = "analyzing"
            /\ UNCHANGED market_data
    /\ UNCHANGED <<market_key, topic, market_http, parseVars, section_patterns, listVars, concVars,
                   collectVars, geminiVars,
                   engineVars, helperVars>>

\* the GET answers, times out or raises, and get_market_data runs to its end
MarketAnswer ==
    /\ market_pc = "analyzing"
    /\ \E h \in MarketHttpOutcomes, now \in Timestamps :
          /\ market_http' = h
          /\ market_data' = MarketCaught(BuildMarketData(topic, h, now), topic, now)
    /\ market_pc' = IF market_data'.kind = "raise" THEN "raised" ELSE "returned"
    /\ UNCHANGED <<market_key, topic, parseVars, section_patterns, listVars, concVars,
                   collectVars, geminiVars,
                   engineVars, helperVars>>

InitMarket ==
    /\ section_patterns = SectionPatterns
    /\ draft = <<>>
    /\ response = <<>>
    /\ ParseIdle
    /\ ListIdle
    /\ ConcIdle
    /\ EngineIdle
    /\ HelperIdle
    /\ CollectIdle
    /\ GeminiIdle
    /\ market_key \in KeyChoices
    /\ topic \in Topics
    /\ market_http = <<>>
    /\ market_data = <<>>
    /\ market_pc = "idle"

NextMarket == MarketCall \/ MarketAnswer

SpecMarket == InitMarket /\ [][NextMarket]_vars

MarketKeys ==
    {"topic", "timestamp", "market_analysis", "key_metrics", "competitor_analysis",
     "investment_opportunities"}

\* C17: get_market_data never raises, and the record it returns has the six
\* keys and a non-empty string under market_analysis
MarketAlwaysAnalysed ==
    /\ market_pc # "raised"
    /\ market_pc = "returned" =>
          /\ market_data.kind = "return"
          /\ DOMAIN market_data.val = MarketKeys
          /\ market_data.val.market_analysis.type = "str"
          /\ market_data.val.market_analysis.val # <<>>

\* a topic that is no str makes a helper raise: the mock record comes back
MarketAlwaysAnalysedWitness ==
    /\ market_pc = "returned"
    /\ market_key # NoKey
    /\ topic = NoneValue
    /\ market_http.kind = "timeout"
    /\ market_data.val = GetMockMarketData(topic, market_data.val.timestamp.val)
    /\ market_data.val.market_analysis.val # <<>>
----------------------------------------------------------------------------
(* parse_research_response on one section introduced by a header alias *)

AliasBodies == { <<"T", "e", "n", " ", "c", "h", "a", "r", "s", ".">>, <<"E", "l", "e", "v", "e", "n", " ", "c", "h", "a", "r">>, <<"F", "o", "o", " ", "b", "a", "r", " ", "b", "a", "z", " ", "q", "u", "x", " ", "q", "u", "u", "x", ".">>, <<"T", "w", "o", " ", "l", "i", "n", "e", "s", " ", "o", "f", "\n", "b", "o", "d", "y", " ", "t", "e", "x", "t", " ", "h", "e", "r", "e">> }

FieldIndex(f) == CHOOSE k \in 1..Len(FieldOrder) : FieldOrder[k] = f

\* the field whose section follows the section of f
FollowingField(f) == FieldOrder[(FieldIndex(f) % Len(FieldOrder)) + 1]

AliasDrafts ==
    {[field |-> f, alias |-> a, body |-> b, position |-> p] :
        f \in Fields, a \in 1..2, b \in AliasBodies, p \in {"last", "followed"}}

\* the alias on its own line, the body, and for "followed" the next section
AliasResponse(d) ==
    Headers[d.field][d.alias] \o <<"\n">> \o d.body
    \o (IF d.position = "last" THEN <<>>
        ELSE <<"\n">> \o Headers[FollowingField(d.field)][1] \o <<"\n", "O", "t", "h", "e", "r", " ", "s", "e", "c", "t", "i", "o", "n", " ", "t", "e", "x", "t", " ", "h", "e", "r", "e", ".">>)

InitAlias ==
    /\ section_patterns = SectionPatterns
    /\ draft \in {d \in AliasDrafts : d.alias <= Len(Headers[d.field])}
    /\ response = AliasResponse(draft)
    /\ ParseIdle
    /\ ListIdle
    /\ ConcIdle
    /\ SvcIdle

SpecAlias == InitAlias /\ [][Next]_vars

\* C18: a section introduced by any alias of its field, with a body of at
\* least 10 characters, yields that body as the field's content, whether or
\* not another section follows
AliasesAccepted ==
    (pc = "done" /\ Len(draft.body) >= 10) => sections[draft.field] = draft.body
----------------------------------------------------------------------------
(* parse_research_response on one section that only the header fallback can
   extract: an alias, a body, and a line after the body *)

FallbackBodies == { <<"F", "o", "o", " ", "b", "a", "r", " ", "b", "a", "z", " ", "q", "u", "x", " ", "q", "u", "u", "x", ".">>, <<"T", "w", "o", " ", "l", "i", "n", "e", "s", " ", "o", "f", "\n", "b", "o", "d", "y", " ", "t", "e", "x", "t", " ", "h", "e", "r", "e">> }

\* the line after the body: none, an all-caps header-like line, a mixed-case
\* and a lower-case line with a colon, and a lower-case line without one
FallbackTails == { <<>>, <<"N", "E", "X", "T", " ", "S", "T", "E", "P", "S", ":", " ", "g", "o", " ", "o", "n">>, <<"N", "o", "t", "e", ":", " ", "w", "e", "l", "l", " ", "d", "o", "n", "e">>, <<"n", "o", "t", "e", ":", " ", "w", "e", "l", "l", " ", "d", "o", "n", "e">>, <<"m", "o", "r", "e", " ", "t", "e", "x", "t", " ", "i", "n", " ", "l", "o", "w", "e", "r", " ", "c", "a", "s", "e">> }

FallbackDrafts ==
    {[field |-> f, alias |-> a, sep |-> s, body |-> b, tail |-> tl] :
        f \in Fields, a \in 1..2, s \in {<<"\n">>, <<":", "\n">>}, b \in FallbackBodies, tl \in FallbackTails}

FallbackResponse(d) ==
    Headers[d.field][d.alias] \o d.sep \o d.body
    \o (IF d.tail = <<>> THEN <<>> ELSE <<"\n">> \o d.tail)

InitFallback ==
    /\ section_patterns = SectionPatterns
    /\ draft \in {d \in FallbackDrafts : d.alias <= Len(Headers[d.field])}
    /\ response = FallbackResponse(draft)
    /\ ParseIdle
    /\ ListIdle
    /\ ConcIdle
    /\ SvcIdle

SpecFallback == InitFallback /\ [][Next]_vars

\* every field-specific pattern of f fails on t: no match, or content the gate rejects
PatternsFail(t, f) ==
    LET Fails(m) == m = NoMatch \/ ~Adequate(Strip(Group1(t, m)))
    IN  \A k \in 1..Len(SectionPatterns[f]) : Fails(Search(SectionPatterns[f][k], t))

\* the word w stands at position i of t, in either case
OccursAt(t, i, w) ==
    /\ i + Len(w) - 1 <= Len(t)
    /\ \A k \in 1..Len(w) : Fold(t[i + k - 1]) = Fold(w[k])

Occurs(t, w) == \E i \in 1..Len(t) : OccursAt(t, i, w)

\* the position just after the first occurrence of the first alias of f that occurs in t
AfterFirstAlias(t, f) ==
    LET After(w) == Least({i \in 1..Len(t) : OccursAt(t, i, w)}) + Len(w)
    IN  After(Headers[f][Least({a \in 1..Len(Headers[f]) : Occurs(t, Headers[f][a])})])

\* an all-caps header-like line starts at i: capital letters and spaces, then a colon
CapsHeaderLineAt(t, i) ==
    \E e \in (i + 1)..Len(t) :
        /\ t[e] = ":"
        /\ \A k \in i..(e - 1) : t[k] \in UpperSet \cup {" "}

\* the newline before the next all-caps header-like line, or the end of the text
CaptureEnd(t, from) ==
    Least({Len(t) + 1} \cup {j \in from..Len(t) : t[j] = "\n" /\ CapsHeaderLineAt(t, j + 1)})

ExpectedCapture(t, f) ==
    LET Cut(from) == Strip(SubSeq(t, from, CaptureEnd(t, from) - 1))
    IN  Cut(SkipColonNewline(t, AfterFirstAlias(t, f)))

\* C19: when every field-specific pattern fails, the content is the trimmed
\* text from just after the first alias occurrence up to the next all-caps
\* header-like line, or to the end of the text when none follows; a line in
\* lower or mixed case does not end it
FallbackCapture ==
    ( /\ pc = "done"
      /\ PatternsFail(cleaned_response, draft.field)
      /\ Adequate(ExpectedCapture(cleaned_response, draft.field)) )
    => sections[draft.field] = ExpectedCapture(cleaned_response, draft.field)
----------------------------------------------------------------------------
(* parse_research_response on a response in which the header of one field
   stands twice, each time followed by a body *)

\* the k-th field's header as a numbered, a hashed and a colon line, and its last alias
RepeatForms(k) ==
    LET hs == Headers[FieldOrder[k]]
    IN  { <<<<"1", "2", "3", "4", "5", "6">>[k], ".", " ">> \o hs[1], <<"#", "#", " ">> \o hs[1], hs[1] \o <<":">>, hs[Len(hs)] }

RepeatBodies == { <<>>, <<"B", "r", "i", "e", "f", ".">>, <<"F", "i", "r", "s", "t", " ", "b", "o", "d", "y", " ", "t", "e", "x", "t", " ", "h", "e", "r", "e", ".">>, <<"A", "n", "o", "t", "h", "e", "r", " ", "b", "o", "d", "y", " ", "l", "i", "n", "e", ".">> }

RepeatDrafts ==
    UNION {[field : {FieldOrder[k]}, first : RepeatForms(k), body1 : RepeatBodies,
            second : RepeatForms(k), body2 : RepeatBodies] : k \in 1..Len(FieldOrder)}

RepeatResponse(d) == d.first \o <<"\n">> \o d.body1 \o <<"\n">> \o d.second \o <<"\n">> \o d.body2

InitRepeat ==
    /\ section_patterns = SectionPatterns
    /\ draft \in RepeatDrafts
    /\ response = RepeatResponse(draft)
    /\ ParseIdle
    /\ ListIdle
    /\ ConcIdle
    /\ SvcIdle

SpecRepeat == InitRepeat /\ [][Next]_vars

\* the positions of t where the word w stands, in either case
Occurrences(t, w) == {i \in 1..Len(t) : OccursAt(t, i, w)}

\* the first position at or after i that holds no whitespace
ContentStart(t, i) == Least({Len(t) + 1} \cup {j \in i..Len(t) : ~IsSpace(t[j])})

\* the match m of matcher pat in t starts its capture at the first occurrence
\* of pat's header: the match begins no later than it, only colons and
\* newlines lie between the header and the captured group, and the trimmed
\* content begins no later than the second occurrence
CapturesFromFirst(t, pat, m) ==
    LET From(occ) ==
            LET At(p1) ==
                    /\ m.start <= p1
                    /\ p1 + Len(pat.hdr) <= m.gs
                    /\ \A i \in (p1 + Len(pat.hdr))..(m.gs - 1) : t[i] \in {":", "\n"}
                    /\ \A p2 \in occ \ {p1} : ContentStart(t, m.gs) <= p2
            IN  occ # {} /\ At(Least(occ))
    IN  From(Occurrences(t, pat.hdr))

\* C20: every strategy that matches starts its capture at the first occurrence
\* of the header it searches for, and the content returned for a field is the
\* content of such a match, so it never starts after a later occurrence
FirstOccurrenceWins ==
    pc = "done" =>
        \A f \in Fields :
            LET Ok(pat) ==
                    LET Holds(m) == m = NoMatch \/ CapturesFromFirst(cleaned_response, pat, m)
                    IN  Holds(Search(pat, cleaned_response))
            IN  /\ \A k \in 1..Len(Strategies(f)) : Ok(Strategies(f)[k])
                /\ sections[f] # <<>> =>
                      \E k \in 1..Len(Strategies(f)) : Captured(Strategies(f)[k]) = sections[f]

FirstOccurrenceWitness ==
    /\ pc = "done"
    /\ draft.field = "summary"
    /\ draft.first = <<"#", "#", " ", "E", "X", "E", "C", "U", "T", "I", "V", "E", " ", "S", "U", "M", "M", "A", "R", "Y">>
    /\ draft.second = <<"#", "#", " ", "E", "X", "E", "C", "U", "T", "I", "V", "E", " ", "S", "U", "M", "M", "A", "R", "Y">>
    /\ draft.body1 = <<"F", "i", "r", "s", "t", " ", "b", "o", "d", "y", " ", "t", "e", "x", "t", " ", "h", "e", "r", "e", ".">>
    /\ draft.body2 = <<"A", "n", "o", "t", "h", "e", "r", " ", "b", "o", "d", "y", " ", "l", "i", "n", "e", ".">>
    /\ Cardinality(Occurrences(cleaned_response, <<"E", "X", "E", "C", "U", "T", "I", "V", "E", " ", "S", "U", "M", "M", "A", "R", "Y">>)) = 2
    /\ sections["summary"] = <<"F", "i", "r", "s", "t", " ", "b", "o", "d", "y", " ", "t", "e", "x", "t", " ", "h", "e", "r", "e", ".">>
----------------------------------------------------------------------------
(* _extract_list_items on numbered lists *)

\* numbered lists have at most MaxNumbered lines
MaxNumbered == 3

\* item texts of the numbered lines: plain words, and words with a hyphen,
\* a dot or a digit inside
NumberedItems == { <<"A", "l", "p", "h", "a">>, <<"B", "e", "t", "a", " ", "C", "o", "r", "p">>, <<"G", "a", "m", "m", "a", "-", "R", "a", "y">>, <<"v", "1", ".", "5", " ", "r", "e", "l", "e", "a", "s", "e">>, <<"A", " ", "-", " ", "B">> }

\* the k-th line '<n>. <item>' of a list numbered from base + 1
NumberedLine(d, k) == LineNumber(d.base + k) \o <<".", " ">> \o d.items[k]

\* the lines of the list, and nothing else
NumberedLines(d) == [k \in 1..Len(d.items) |-> NumberedLine(d, k)]

NumberedDrafts ==
    [items : SeqsUpTo(NumberedItems, MaxNumbered) \ {<<>>}, base : {0, 8}]

InitNumbered ==
    /\ section_patterns = SectionPatterns
    /\ draft \in NumberedDrafts
    /\ response = <<>>
    /\ ParseIdle
    /\ text = Join(NumberedLines(draft))
    /\ items = <<>>
    /\ list_result = <<>>
    /\ ConcIdle
    /\ SvcIdle

SpecNumbered == InitNumbered /\ [][NextList]_vars

\* C21: a text in which every line is a numbered line and none is
\* hyphen-bulleted gives one item per numbered line, each the full item text
\* of its line, in order
NumberedCascade == pc = "done" => items = draft.items

----------------------------------------------------------------------------
(* _extract_list_items on texts without list structure *)

\* such texts have at most MaxPlainLines lines
MaxPlainLines == 3

\* lines of 0, 5 and 6 characters, lines with surrounding whitespace, lines
\* that start with numerals, a line of numerals only, and two lines with a
\* hyphen (the second one is a bullet line)
PlainLines ==
    { <<>>, <<"A", "l", "p", "h", "a">>, <<"A", "l", "p", "h", "a", "s">>, <<" ", " ", "B", "e", "t", "a", " ", "C", "o", "r", "p", " ">>, <<"1", "2", " ", "G", "a", "m", "m", "a", " ", "L", "t", "d">>, <<"1", "2", "3", "4", "5", "6">>, <<"O", "m", "e", "g", "a", " ", "-">>, <<"-", " ", "Z", "e", "t", "a", " ", "O", "n", "e">> }

InitPlain ==
    /\ section_patterns = SectionPatterns
    /\ draft \in SeqsUpTo(PlainLines, MaxPlainLines)
    /\ response = <<>>
    /\ ParseIdle
    /\ text = Join(draft)
    /\ items = <<>>
    /\ list_result = <<>>
    /\ ConcIdle
    /\ SvcIdle

SpecPlain == InitPlain /\ [][NextList]_vars

\* no list pattern has a match in t
NoStructure(t) == \A k \in 1..Len(ListPatterns) : FindAll(ListPatterns[k], t) = <<>>

\* numerals, dots, hyphens and whitespace
IsPrefixChar(c) == c \in {"-", "."} \/ IsDigit(c) \/ IsSpace(c)

\* the line after its leading run of numerals, dots, hyphens and whitespace
AfterLeadingRun(line) ==
    LET From(s) == SubSeq(line, s, Len(line))
    IN  From(Least({Len(line) + 1} \cup {j \in 1..Len(line) : ~IsPrefixChar(line[j])}))

\* the trimmed line has at least 6 characters and something after its leading run
GivesItem(line) == Len(Strip(line)) >= 6 /\ AfterLeadingRun(Strip(line)) # <<>>

\* one item per line that gives one, in line order
ExpectedLineItems(lines) ==
    LET kept == SelectSeq(lines, GivesItem)
    IN  [k \in 1..Len(kept) |-> AfterLeadingRun(Strip(kept[k]))]

\* C22: when no list pattern matches, the items (before deduplication and
\* truncation) are the lines of at least 6 characters after trimming, each
\* without its leading run of numerals, dots, hyphens and whitespace, those
\* that are left non-empty, in line order; every item is non-empty and has
\* no leading or trailing whitespace
LineFallback ==
    pc = "done" /\ NoStructure(text) =>
        /\ items = ExpectedLineItems(draft)
        /\ \A k \in 1..Len(items) : items[k] # <<>> /\ Strip(items[k]) = items[k]

\* a short line is discarded, a line of numerals leaves nothing, and two
\* lines lose their leading numerals and their surrounding whitespace
LineFallbackWitness ==
    /\ pc = "done"
    /\ NoStructure(text)
    /\ draft = << <<"A", "l", "p", "h", "a">>, <<"1", "2", " ", "G", "a", "m", "m", "a", " ", "L", "t", "d">>, <<" ", " ", "B", "e", "t", "a", " ", "C", "o", "r", "p", " ">> >>
    /\ items = << <<"G", "a", "m", "m", "a", " ", "L", "t", "d">>, <<"B", "e", "t", "a", " ", "C", "o", "r", "p">> >>
----------------------------------------------------------------------------
(* _clean_response on arbitrary texts *)

\* texts have at most MaxCleanLen characters
MaxCleanLen == 6

\* two letters, a blank and the newline
CleanChars == {"a", "b", " ", "\n"}

CleanTexts == SeqsUpTo(CleanChars, MaxCleanLen)

InitClean ==
    /\ section_patterns = SectionPatterns
    /\ draft = <<>>
    /\ response \in CleanTexts
    /\ ParseIdle
    /\ ListIdle
    /\ ConcIdle
    /\ SvcIdle

\* ResponseParser._clean_response(response)
Clean ==
    /\ pc = "call"
    /\ cleaned_response' = CleanResponse(response)
    /\ pc' = "done"
    /\ UNCHANGED <<draft, section_patterns, response, sections, parsed_data, outcome,
                   extract_calls, validation, listVars, concVars, svcVars>>

NextClean == Clean

SpecClean == InitClean /\ [][NextClean]_vars

\* the lines of t that are neither empty nor whitespace-only, trimmed
NonBlankLines(t) ==
    LET IsNonBlank(line) == Strip(line) # <<>>
        Trimmed(ls) == [k \in 1..Len(ls) |-> Strip(ls[k])]
    IN  Trimmed(SelectSeq(SplitLines(t), IsNonBlank))

\* every blank line of t is empty and has no blank line next to it
BlankRunsCollapsed(t) ==
    LET Single(ls) ==
            \A k \in 1..Len(ls) :
                Strip(ls[k]) = <<>> =>
                    /\ ls[k] = <<>>
                    /\ k < Len(ls) => Strip(ls[k + 1]) # <<>>
    IN  t # <<>> => Single(SplitLines(t))

\* C23: the cleaned text has no leading or trailing whitespace, its runs of
\* blank lines are single empty lines (so it has no three newlines in a row),
\* its non-blank lines are those of the input in order, and cleaning it
\* again changes nothing
WhitespaceNormalized ==
    pc = "done" =>
        /\ Strip(cleaned_response) = cleaned_response
        /\ BlankRunsCollapsed(cleaned_response)
        /\ \A i \in 1..(Len(cleaned_response) - 2) :
               SubSeq(cleaned_response, i, i + 2) # <<"\n", "\n", "\n">>
        /\ NonBlankLines(cleaned_response) = NonBlankLines(response)
        /\ CleanResponse(cleaned_response) = cleaned_response

\* a run of two blank lines, one of them whitespace-only, between two lines
WhitespaceNormalizedWitness ==
    /\ pc = "done"
    /\ response = <<"a", "\n", " ", "\n", "\n", "b">>
    /\ cleaned_response = <<"a", "\n", "\n", "b">>
----------------------------------------------------------------------------
(* parse_research_response on responses with one section missing *)

\* well-formed bodies of a text section
PartialBodies ==
    { <<"P", "l", "a", "i", "n", " ", "s", "e", "c", "t", "i", "o", "n", " ", "t", "e", "x", "t", ".">>, <<"F", "o", "o", " ", "b", "a", "r", " ", "b", "a", "z", " ", "q", "u", "x", " ", "q", "u", "u", "x", ".">>, <<"T", "w", "o", " ", "l", "i", "n", "e", "s", " ", "o", "f", " ", "t", "e", "x", "t", "\n", "i", "n", " ", "t", "h", "i", "s", " ", "s", "e", "c", "t", "i", "o", "n", ".">> }

RECURSIVE RenderWithout(_, _, _, _)
\* header line, newline, body for the sections k..6 other than missing
RenderWithout(style, bodies, missing, k) ==
    LET sec == IF FieldOrder[k] = missing THEN <<>>
               ELSE <<HeaderLine(style, k) \o <<"\n">> \o bodies[FieldOrder[k]]>>
    IN  IF k = Len(FieldOrder) THEN sec
        ELSE sec \o RenderWithout(style, bodies, missing, k + 1)

\* one section is missing, and one text section has a body of its own
PartialDrafts ==
    {[style |-> st, missing |-> m,
      bodies |-> [f \in Fields |-> IF f = g THEN b ELSE DefaultBody(f)]] :
        st \in Styles, m \in Fields, g \in StringFields, b \in PartialBodies}

InitPartial ==
    /\ section_patterns = SectionPatterns
    /\ draft \in PartialDrafts
    /\ response = Join(RenderWithout(draft.style, draft.bodies, draft.missing, 1))
    /\ ParseIdle
    /\ ListIdle
    /\ ConcIdle
    /\ SvcIdle

SpecPartial == InitPartial /\ [][Next]_vars

\* C24: when the header of one field is absent, that field alone is empty and
\* every other field has exactly its own section body
PartialPerField ==
    pc = "done" =>
        /\ sections[draft.missing] = <<>>
        /\ parsed_data[draft.missing].val = <<>>
        /\ \A f \in Fields \ {draft.missing} : sections[f] = draft.bodies[f]
----------------------------------------------------------------------------
(* core/research_engine.py: AIResearchEngine *)

EngineTopics == { <<"A", "I">>, <<"q", "u", "a", "n", "t", "u", "m", " ", "c", "o", "m", "p", "u", "t", "i", "n", "g">> }

\* an exception whose str() is msg
Raise(msg) == [kind |-> "raise", val |-> msg]

\* what gemini_client.generate_response can come to: two six-section
\* analyses, the text of an API error, an empty text, or an exception
AiTexts ==
    { Render("numbered", [f \in Fields |-> LongDefaultBody(f)], 1),
      Render("hashed", [f \in Fields |-> DefaultBody(f)], 1),
      StatusError(Http("status", <<"4", "2", "9">>, "", <<"q", "u", "o", "t", "a", " ", "e", "x", "c", "e", "e", "d", "e", "d">>)),
      <<>> }

AiOutcomes == {Returned(t) : t \in AiTexts} \cup {Raise(<<"C", "a", "n", "n", "o", "t", " ", "c", "o", "n", "n", "e", "c", "t", " ", "t", "o", " ", "h", "o", "s", "t">>)}

\* _generate_ai_analysis: the response, or f"AI Analysis Error: {str(e)}"
GenerateAiAnalysis(o) == IF o.kind = "raise" THEN <<"A", "I", " ", "A", "n", "a", "l", "y", "s", "i", "s", " ", "E", "r", "r", "o", "r", ":", " ">> \o o.val ELSE o.val

\* get_news(topic, limit=10)
NewsLimit == 10

\* the news API answers with at most MaxArticles articles
MaxArticles == 2

\* what the GET of get_news comes to: kind "timeout", "exception" or "status"
NewsHttp(kind, status, count) == [kind |-> kind, status |-> status, count |-> count]

NewsHttpOutcomes ==
    {NewsHttp("timeout", 0, 0), NewsHttp("exception", 0, 0), NewsHttp("status", 401, 0)}
    \cup {NewsHttp("status", 200, n) : n \in 0..MaxArticles}

\* the processed form of the k-th article, which has a title and nothing else
Article(k) ==
    [title |-> <<"N", "e", "w", "s", " ", "i", "t", "e", "m", " ">> \o Decimal(k), description |-> <<"N", "o", " ", "d", "e", "s", "c", "r", "i", "p", "t", "i", "o", "n">>, url |-> <<>>,
     source |-> <<"U", "n", "k", "n", "o", "w", "n">>, publishedAt |-> <<>>, content |-> <<>>]

\* NewsService.get_news: the processed articles, [] after an error
GetNews(h, limit) ==
    IF h.kind = "status" /\ h.status = 200
    THEN [k \in 1..(IF h.count < limit THEN h.count ELSE limit) |-> Article(k)]
    ELSE <<>>

\* what the await of get_news can do: return a list ...
NewsReturns == {Returned(GetNews(h, NewsLimit)) : h \in NewsHttpOutcomes}

\* ... or raise
NewsRaises == Raise(<<"N", "e", "w", "s", " ", "A", "P", "I", " ", "d", "o", "w", "n">>)

\* _fetch_latest_news without its try/except
FetchLatestNewsUnguarded(o) == o

\* _fetch_latest_news for a configured service: except Exception: return []
FetchLatestNews(o) == IF o.kind = "raise" THEN Returned(<<>>) ELSE o

\* the answers of the market API the engine meets
EngineMarketHttp == {MarketHttp("status", 200, "list", 3), MarketHttp("timeout", 0, "", 0)}

\* what the await of get_market_data can do: return its record ...
MarketReturns(t) ==
    {MarketCaught(BuildMarketData(Str(t), h, now), Str(t), now) :
         h \in EngineMarketHttp, now \in Timestamps}

\* ... or raise
MarketRaises == Raise(<<"M", "a", "r", "k", "e", "t", " ", "A", "P", "I", " ", "d", "o", "w", "n">>)

\* _fetch_market_data for a configured service: except Exception: return {}
FetchMarketData(o) == IF o.kind = "raise" THEN Returned(Dict(<<>>)) ELSE Returned(Dict(o.val))

\* len(parsed_data[section]) > 50
ConfidenceMinLength == 50

Float(x) == [type |-> "float", val |-> x]

\* the score without its cap
CalculateConfidenceScoreUncapped(data, news_data) ==
    LET SectionScore(f) ==
            IF GetValue(data, f) # <<>> /\ Len(GetValue(data, f)) > ConfidenceMinLength
            THEN 20 ELSE 0
        ListScore(f) == IF GetValue(data, f) # <<>> THEN 10 ELSE 0
    IN  SectionScore("summary") + SectionScore("market_analysis")
        + SectionScore("technical_details") + SectionScore("business_opportunities")
        + ListScore("key_players") + ListScore("trends")
        + (IF news_data # <<>> THEN 5 ELSE 0)

\* _calculate_confidence_score: 20.0 for each of the four sections longer
\* than 50 characters, 10.0 for each non-empty list, 5.0 for news, capped at
\* 100.0; every value is a multiple of 5, which a float holds exactly
CalculateConfidenceScore(data, news_data) ==
    LET Min(a, b) == IF a < b THEN a ELSE b
        SectionScore(f) ==
            IF GetValue(data, f) # <<>> /\ Len(GetValue(data, f)) > ConfidenceMinLength
            THEN 20 ELSE 0
        ListScore(f) == IF GetValue(data, f) # <<>> THEN 10 ELSE 0
        WithNews(score) == IF news_data # <<>> THEN Min(score + 5, 100) ELSE score
        Capped(score) == Min(score, 100)
    IN  Capped(WithNews(SectionScore("summary") + SectionScore("market_analysis")
                        + SectionScore("technical_details")
                        + SectionScore("business_opportunities")
                        + ListScore("key_players") + ListScore("trends")))

\* _compile_sources
CompileSources(news, market) ==
    << <<"G", "o", "o", "g", "l", "e", " ", "G", "e", "m", "i", "n", "i", " ", "1", ".", "5", " ", "P", "r", "o", " ", "A", "I", " ", "A", "n", "a", "l", "y", "s", "i", "s">> >>
    \o (IF news THEN << <<"N", "e", "w", "s", " ", "A", "P", "I">> >> ELSE <<>>)
    \o (IF market THEN << <<"M", "a", "r", "k", "e", "t", " ", "D", "a", "t", "a", " ", "A", "P", "I">> >> ELSE <<>>)

\* parsed_data.get(key, default)
GetOr(data, key, default) == IF key \in DOMAIN data THEN data[key] ELSE default

\* the ResearchResult of the try block
AssembleResult(t, now, data, news, score, srcs) ==
    [topic |-> Str(t),
     timestamp |-> Str(now),
     summary |-> GetOr(data, "summary", Str(<<>>)),
     market_analysis |-> GetOr(data, "market_analysis", Str(<<>>)),
     technical_details |-> GetOr(data, "technical_details", Str(<<>>)),
     business_opportunities |-> GetOr(data, "business_opportunities", Str(<<>>)),
     key_players |-> GetOr(data, "key_players", List(<<>>)),
     trends |-> GetOr(data, "trends", List(<<>>)),
     latest_news |-> List(news),
     confidence_score |-> Float(score),
     sources |-> List(srcs)]

\* the ResearchResult of the except block
ErrorResult(t, now, msg) ==
    [topic |-> Str(t),
     timestamp |-> Str(now),
     summary |-> Str(<<"R", "e", "s", "e", "a", "r", "c", "h", " ", "f", "a", "i", "l", "e", "d", ":", " ">> \o msg),
     market_analysis |-> Str(<<"A", "n", "a", "l", "y", "s", "i", "s", " ", "u", "n", "a", "v", "a", "i", "l", "a", "b", "l", "e", " ", "d", "u", "e", " ", "t", "o", " ", "e", "r", "r", "o", "r">>),
     technical_details |-> Str(<<"T", "e", "c", "h", "n", "i", "c", "a", "l", " ", "a", "n", "a", "l", "y", "s", "i", "s", " ", "u", "n", "a", "v", "a", "i", "l", "a", "b", "l", "e">>),
     business_opportunities |-> Str(<<"B", "u", "s", "i", "n", "e", "s", "s", " ", "a", "n", "a", "l", "y", "s", "i", "s", " ", "u", "n", "a", "v", "a", "i", "l", "a", "b", "l", "e">>),
     key_players |-> List(<<>>),
     trends |-> List(<<>>),
     latest_news |-> List(<<>>),
     confidence_score |-> Float(0),
     sources |-> List(<< <<"E", "r", "r", "o", "r", " ", "o", "c", "c", "u", "r", "r", "e", "d", " ", "d", "u", "r", "i", "n", "g", " ", "r", "e", "s", "e", "a", "r", "c", "h">> >>)]

\* except Exception as e: return ResearchResult(... f"Research failed: {str(e)}" ...)
ResearchCaught(r, t, now) ==
    IF r.kind = "raise" THEN Returned(ErrorResult(t, now, r.val)) ELSE r

\* research_topic up to its second await: the analysis is generated and parsed
ResearchAnalysis ==
    /\ engine_pc = "idle"
    /\ \E o \in AiOutcomes :
          LET Parsed(p) ==
                  IF p.outcome = "raised"
                  THEN /\ \E now \in Timestamps :
                              research_result' =
                                  ResearchCaught(Raise(<<"p", "a", "r", "s", "e">>), engine_topic, now)
                       /\ engine_pc' = IF research_result'.kind = "raise" THEN "raised" ELSE "done"
                       /\ UNCHANGED engine_parsed
                  ELSE /\ engine_parsed' = p.data
                       /\ engine_pc' = "parsed"
                       /\ UNCHANGED research_result
          IN  /\ ai_analysis' = GenerateAiAnalysis(o)
              /\ Parsed(ParseResearchResponse(section_patterns, GenerateAiAnalysis(o)))
    /\ UNCHANGED <<news_service, market_service, engine_topic, latest_news, fetched_market,
                   confidence_score, service_tests, test_results, parseVars, section_patterns,
                   listVars, concVars, collectVars, geminiVars, marketVars, helperVars>>

\* the news are fetched when a news service is configured
ResearchNews ==
    /\ engine_pc = "parsed"
    /\ LET Fetched(r) ==
               IF r.kind = "raise"
               THEN /\ \E now \in Timestamps :
                           research_result' = ResearchCaught(r, engine_topic, now)
                    /\ engine_pc' = IF research_result'.kind = "raise" THEN "raised" ELSE "done"
                    /\ UNCHANGED latest_news
               ELSE /\ latest_news' = r.val
                    /\ engine_pc' = "news_fetched"
                    /\ UNCHANGED research_result
       IN  IF news_service
           THEN \/ \E o \in NewsReturns : Fetched(FetchLatestNews(o))
                \/ Fetched(FetchLatestNews(NewsRaises))
           ELSE Fetched(Returned(<<>>))
    /\ UNCHANGED <<news_service, market_service, engine_topic, ai_analysis, engine_parsed,
                   fetched_market, confidence_score, service_tests, test_results, parseVars,
                   section_patterns, listVars, concVars, collectVars, geminiVars, marketVars, helperVars>>

\* the market data are fetched when a market service is configured, and the
\* result is put together
ResearchMarket ==
    /\ engine_pc = "news_fetched"
    /\ \E now \in Timestamps :
          LET Fetched(r) ==
                  IF r.kind = "raise"
                  THEN /\ research_result' = ResearchCaught(r, engine_topic, now)
                       /\ UNCHANGED <<fetched_market, confidence_score>>
                  ELSE /\ fetched_market' = r.val
                       /\ confidence_score' = CalculateConfidenceScore(engine_parsed, latest_news)
                       /\ research_result' =
                              ResearchCaught(
                                  Returned(AssembleResult(
                                      engine_topic, now, engine_parsed, latest_news,
                                      CalculateConfidenceScore(engine_parsed, latest_news),
                                      CompileSources(news_service, market_service))),
                                  engine_topic, now)
          IN  IF market_service
              THEN \/ \E o \in MarketReturns(engine_topic) : Fetched(FetchMarketData(o))
                   \/ Fetched(FetchMarketData(MarketRaises))
              ELSE Fetched(Returned(Dict(<<>>)))
    /\ engine_pc' = IF research_result'.kind = "raise" THEN "raised" ELSE "done"
    /\ UNCHANGED <<news_service, market_service, engine_topic, ai_analysis, engine_parsed,
                   latest_news, service_tests, test_results, parseVars, section_patterns,
                   listVars, concVars, collectVars, geminiVars, marketVars, helperVars>>

\* what a test_connection call comes to: it returns a positive or a negative
\* answer, raises, or is not made ("none")
TestOutcome(kind, success, error) == [kind |-> kind, success |-> success, error |-> error]

NotTested == TestOutcome("none", FALSE, <<>>)

TestOutcomes ==
    {TestOutcome("return", TRUE, <<>>), TestOutcome("return", FALSE, <<>>),
     TestOutcome("raise", FALSE, <<"C", "a", "n", "n", "o", "t", " ", "c", "o", "n", "n", "e", "c", "t", " ", "t", "o", " ", "h", "o", "s", "t">>)}

\* one block of test_all_services without its try/except
ServiceEntryUnguarded(o, details) ==
    IF o.kind = "raise" THEN Raise(o.error)
    ELSE Returned([status |-> IF o.success THEN "success" ELSE "failed", details |-> details])

\* one block of test_all_services for a service that is there
ServiceEntry(o, details) ==
    IF o.kind = "raise" THEN Returned([status |-> "error", details |-> Str(o.error)])
    ELSE Returned([status |-> IF o.success THEN "success" ELSE "failed", details |-> details])

\* the else branch of a block
NotConfigured(details) == Returned([status |-> "not_configured", details |-> Str(details)])

\* test_all_services up to the end of the block of one service: the entry is
\* stored under name, or the exception leaves the call
TestStep(name, o, entry, next_pc) ==
    /\ service_tests' = (name :> o) @@ service_tests
    /\ IF entry.kind = "raise"
       THEN engine_pc' = "raised" /\ UNCHANGED test_results
       ELSE engine_pc' = next_pc /\ test_results' = (name :> entry.val) @@ test_results
    /\ UNCHANGED <<news_service, market_service, engine_topic, ai_analysis, engine_parsed,
                   latest_news, fetched_market, confidence_score, research_result, parseVars,
                   section_patterns, listVars, concVars, collectVars, geminiVars, marketVars, helperVars>>

TestGemini ==
    /\ engine_pc = "idle"
    /\ \E o \in TestOutcomes :
          TestStep("gemini", o, ServiceEntry(o, Dict([success |-> o.success])), "gemini_tested")

TestNews ==
    /\ engine_pc = "gemini_tested"
    /\ IF news_service
       THEN \E o \in TestOutcomes :
               TestStep("news", o, ServiceEntry(o, Str(<<"N", "e", "w", "s", " ", "A", "P", "I", " ", "t", "e", "s", "t", " ", "c", "o", "m", "p", "l", "e", "t", "e", "d">>)), "news_tested")
       ELSE TestStep("news", NotTested, NotConfigured(<<"N", "e", "w", "s", " ", "A", "P", "I", " ", "k", "e", "y", " ", "n", "o", "t", " ", "p", "r", "o", "v", "i", "d", "e", "d">>), "news_tested")

TestMarket ==
    /\ engine_pc = "news_tested"
    /\ IF market_service
       THEN \E o \in TestOutcomes :
               TestStep("market", o, ServiceEntry(o, Str(<<"M", "a", "r", "k", "e", "t", " ", "A", "P", "I", " ", "t", "e", "s", "t", " ", "c", "o", "m", "p", "l", "e", "t", "e", "d">>)), "tested")
       ELSE TestStep("market", NotTested, NotConfigured(<<"M", "a", "r", "k", "e", "t", " ", "A", "P", "I", " ", "k", "e", "y", " ", "n", "o", "t", " ", "p", "r", "o", "v", "i", "d", "e", "d">>), "tested")

\* AIResearchEngine(api_keys): the Gemini client is always there, the news and
\* the market service only with their keys
InitEngine ==
    /\ section_patterns = SectionPatterns
    /\ draft = <<>>
    /\ response = <<>>
    /\ ParseIdle
    /\ ListIdle
    /\ ConcIdle
    /\ CollectIdle
    /\ GeminiIdle
    /\ MarketIdle
    /\ HelperIdle
    /\ news_service \in BOOLEAN
    /\ market_service \in BOOLEAN
    /\ engine_topic \in EngineTopics
    /\ ai_analysis = <<>>
    /\ engine_parsed = <<>>
    /\ latest_news = <<>>
    /\ fetched_market = <<>>
    /\ confidence_score = 0
    /\ research_result = <<>>
    /\ service_tests = <<>>
    /\ test_results = <<>>
    /\ engine_pc = "idle"

NextEngine ==
    \/ ResearchAnalysis
    \/ ResearchNews
    \/ ResearchMarket
    \/ TestGemini
    \/ TestNews
    \/ TestMarket

SpecEngine == InitEngine /\ [][NextEngine]_vars

\* every await of the engine ends: the requests of the services carry a
\* timeout (30 s for Gemini and the news API, 10 s and 30 s for the market
\* API), after which the await raises
SpecEngineLive == SpecEngine /\ WF_vars(NextEngine)
----------------------------------------------------------------------------
(* research_topic and test_all_services: what their callers get *)

\* C25: the returned result carries the fetched news articles and, in one of
\* its fields, the market metrics that the market fetch returned
ResultCarriesAuxiliary ==
    engine_pc = "done" =>
        /\ research_result.val.latest_news = List(latest_news)
        /\ market_service /\ DOMAIN fetched_market.val # {} =>
              \E f \in DOMAIN research_result.val :
                  /\ research_result.val[f].type = "dict"
                  /\ research_result.val[f].val = fetched_market.val

ServiceNames == {"gemini", "news", "market"}

\* C26: test_all_services returns a report on exactly gemini, news and market
\* with a status for each: not_configured iff the service is not there, error
\* when its test raised, failed when its test answered negatively, whatever
\* the tests of the other services came to
ServiceReport ==
    /\ DOMAIN service_tests # {} => engine_pc # "raised"
    /\ engine_pc = "tested" =>
          /\ DOMAIN test_results = ServiceNames
          /\ \A s \in ServiceNames :
                /\ test_results[s].status \in {"success", "failed", "error", "not_configured"}
                /\ service_tests[s].kind = "raise" => test_results[s].status = "error"
                /\ service_tests[s].kind = "return" =>
                      test_results[s].status = IF service_tests[s].success THEN "success" ELSE "failed"
          /\ test_results["gemini"].status # "not_configured"
          /\ test_results["news"].status = "not_configured" <=> ~news_service
          /\ test_results["market"].status = "not_configured" <=> ~market_service

\* the Gemini test raises, the news test answers negatively, and no market
\* service is there
ServiceReportWitness ==
    /\ engine_pc = "tested"
    /\ news_service
    /\ ~market_service
    /\ service_tests["gemini"].kind = "raise"
    /\ service_tests["news"] = TestOutcome("return", FALSE, <<>>)
    /\ test_results["gemini"].status = "error"
    /\ test_results["news"].status = "failed"
    /\ test_results["market"].status = "not_configured"

\* C27: research_topic does not raise; the result it returns has the topic
\* asked for, and its six parsed fields are those of the parsed analysis,
\* whatever the news fetch and the market fetch came to
ResearchReturned ==
    /\ DOMAIN service_tests = {} => engine_pc # "raised"
    /\ engine_pc = "done" =>
          /\ research_result.kind = "return"
          /\ research_result.val.topic = Str(engine_topic)
          /\ \A f \in Fields : research_result.val[f] = engine_parsed[f]

\* ... and a call that has begun comes to its end
ResearchNeverFails == []ResearchReturned /\ (engine_pc = "parsed" ~> engine_pc = "done")

\* both services are there and both fetches failed: the summary of the
\* analysis is in the result
ResearchNeverFailsWitness ==
    /\ engine_pc = "done"
    /\ news_service
    /\ market_service
    /\ latest_news = <<>>
    /\ DOMAIN fetched_market.val = {}
    /\ Len(engine_parsed["summary"].val) > 50
    /\ research_result.val.summary = engine_parsed["summary"]
    /\ research_result.val.confidence_score = Float(100)
----------------------------------------------------------------------------
(* _calculate_confidence_score on any record and news list *)

\* a record and a news list are at hand, no research_topic call has produced them
InitConfidence ==
    /\ section_patterns = SectionPatterns
    /\ draft = <<>>
    /\ response = <<>>
    /\ ParseIdle
    /\ ListIdle
    /\ ConcIdle
    /\ CollectIdle
    /\ GeminiIdle
    /\ MarketIdle
    /\ HelperIdle
    /\ news_service = FALSE
    /\ market_service = FALSE
    /\ engine_topic = <<>>
    /\ ai_analysis = <<>>
    /\ engine_parsed \in ValidationInputs
    /\ latest_news \in {<<>>, <<Article(1)>>}
    /\ fetched_market = <<>>
    /\ confidence_score = 0
    /\ research_result = <<>>
    /\ service_tests = <<>>
    /\ test_results = <<>>
    /\ engine_pc = "scoring"

\* AIResearchEngine._calculate_confidence_score(parsed_data, news_data)
Score ==
    /\ engine_pc = "scoring"
    /\ confidence_score' = CalculateConfidenceScore(engine_parsed, latest_news)
    /\ engine_pc' = "scored"
    /\ UNCHANGED <<news_service, market_service, engine_topic, ai_analysis, engine_parsed,
                   latest_news, fetched_market, research_result, service_tests, test_results,
                   parseVars, section_patterns, listVars, concVars, collectVars, geminiVars,
                   marketVars, helperVars>>

NextConfidence == Score

SpecConfidence == InitConfidence /\ [][NextConfidence]_vars

\* the fields among fs that validate_parsed_data reports adequate
AdequateAmong(data, fs) == {f \in fs : ValidateParsedData(data)[f]}

\* C28: the score is a multiple of 5 from 0 to 100, equal to 20 for each
\* string field and 10 for each list field the validator reports adequate,
\* plus 5 for a non-empty news list, capped at 100; it is 100 iff all six
\* fields are adequate and 0 iff none is and there is no news
ConfidenceBounded ==
    engine_pc = "scored" =>
        /\ confidence_score \in {5 * k : k \in 0..20}
        /\ \/ confidence_score = 100
              /\ 20 * Cardinality(AdequateAmong(engine_parsed, StringFields))
                 + 10 * Cardinality(AdequateAmong(engine_parsed, ListFields))
                 + (IF latest_news # <<>> THEN 5 ELSE 0) >= 100
           \/ confidence_score =
                 20 * Cardinality(AdequateAmong(engine_parsed, StringFields))
                 + 10 * Cardinality(AdequateAmong(engine_parsed, ListFields))
                 + (IF latest_news # <<>> THEN 5 ELSE 0)
              /\ confidence_score < 100
        /\ confidence_score = 100 <=> AdequateAmong(engine_parsed, Fields) = Fields
        /\ confidence_score = 0 <=>
              AdequateAmong(engine_parsed, Fields) = {} /\ latest_news = <<>>

\* six adequate fields and a news article: the cap holds the score at 100
ConfidenceBoundedWitness ==
    /\ engine_pc = "scored"
    /\ AdequateAmong(engine_parsed, Fields) = Fields
    /\ latest_news # <<>>
    /\ confidence_score = 100
----------------------------------------------------------------------------
(* utils/helpers.py: extract_sections *)

\* the keywords that make a line a header line
SectionKeywords ==
    { <<"e", "x", "e", "c", "u", "t", "i", "v", "e", " ", "s", "u", "m", "m", "a", "r", "y">>, <<"t", "e", "c", "h", "n", "i", "c", "a", "l", " ", "a", "n", "a", "l", "y", "s", "i", "s">>, <<"m", "a", "r", "k", "e", "t", " ", "a", "n", "a", "l", "y", "s", "i", "s">>, <<"b", "u", "s", "i", "n", "e", "s", "s", " ", "o", "p", "p", "o", "r", "t", "u", "n", "i", "t", "i", "e", "s">>,
      <<"l", "a", "t", "e", "s", "t", " ", "d", "e", "v", "e", "l", "o", "p", "m", "e", "n", "t", "s">>, <<"f", "u", "t", "u", "r", "e", " ", "o", "u", "t", "l", "o", "o", "k">> }

\* any(keyword in line.lower() for keyword in [...])
IsHeaderLine(line) == \E keyword \in SectionKeywords : Contains(keyword, Lower(line))

RECURSIVE ReplaceSpaces(_)
\* str.replace(' ', '_')
ReplaceSpaces(s) ==
    IF s = <<>> THEN <<>>
    ELSE <<IF Head(s) = " " THEN "_" ELSE Head(s)>> \o ReplaceSpaces(Tail(s))

\* str.replace(':', '')
RemoveColons(s) ==
    LET NotColon(c) == c # ":"
    IN  SelectSeq(s, NotColon)

\* line.lower().replace(' ', '_').replace(':', '')
SectionKey(line) == RemoveColons(ReplaceSpaces(Lower(line)))

\* sections[current_section] = '\n'.join(current_content), when a section is open
SaveSection(secs, current_section, current_content) ==
    IF current_section # <<>>
    THEN (current_section :> Join(current_content)) @@ secs
    ELSE secs

RECURSIVE ScanFrom(_, _, _, _, _)
\* the loop over the lines from index i on, then the save of the last section;
\* current_section is <<>> for None
ScanFrom(lines, i, secs, current_section, current_content) ==
    IF i > Len(lines) THEN SaveSection(secs, current_section, current_content)
    ELSE LET Step(line) ==
                 IF IsHeaderLine(line)
                 THEN ScanFrom(lines, i + 1,
                               SaveSection(secs, current_section, current_content),
                               SectionKey(line), <<>>)
                 ELSE ScanFrom(lines, i + 1, secs, current_section,
                               IF line # <<>> THEN Append(current_content, line)
                               ELSE current_content)
         IN  Step(Strip(lines[i]))

\* extract_sections(response)
ExtractSections(resp) == ScanFrom(SplitLines(resp), 1, <<>>, <<>>, <<>>)

\* responses have at most MaxScanLines lines
MaxScanLines == 4

\* two forms of one header, a second header, content lines, an empty line and
\* a padded line
ScanLines ==
    { <<"E", "x", "e", "c", "u", "t", "i", "v", "e", " ", "S", "u", "m", "m", "a", "r", "y">>, <<"E", "X", "E", "C", "U", "T", "I", "V", "E", " ", "S", "U", "M", "M", "A", "R", "Y", ":">>, <<"M", "a", "r", "k", "e", "t", " ", "A", "n", "a", "l", "y", "s", "i", "s">>, <<"A", "l", "p", "h", "a">>, <<"B", "e", "t", "a", " ", "l", "i", "n", "e">>, <<>>,
      <<" ", " ", "G", "a", "m", "m", "a", " ", " ">> }

InitScan ==
    /\ section_patterns = SectionPatterns
    /\ draft \in SeqsUpTo(ScanLines, MaxScanLines)
    /\ response = <<>>
    /\ ParseIdle
    /\ ListIdle
    /\ ConcIdle
    /\ CollectIdle
    /\ GeminiIdle
    /\ MarketIdle
    /\ EngineIdle
    /\ scan_response = Join(draft)
    /\ scan_sections = <<>>
    /\ scan_pc = "call"

Scan ==
    /\ scan_pc = "call"
    /\ scan_sections' = ExtractSections(scan_response)
    /\ scan_pc' = "done"
    /\ UNCHANGED <<scan_response, parseVars, section_patterns, listVars, concVars, collectVars,
                   geminiVars, marketVars, engineVars>>

NextScan == Scan

SpecScan == InitScan /\ [][NextScan]_vars

\* index of the nearest header line at or before line i, 0 when there is none
HeaderBefore(lines, i) == Greatest({0} \cup {h \in 1..i : IsHeaderLine(Strip(lines[h]))})

RECURSIVE ContentUnder(_, _, _)
\* from line i on: the trimmed non-empty lines that are no header lines and
\* whose nearest preceding header line opens the section key
ContentUnder(lines, i, key) ==
    IF i > Len(lines) THEN <<>>
    ELSE (IF /\ Strip(lines[i]) # <<>>
             /\ ~IsHeaderLine(Strip(lines[i]))
             /\ HeaderBefore(lines, i) # 0
             /\ SectionKey(Strip(lines[HeaderBefore(lines, i)])) = key
          THEN <<Strip(lines[i])>> ELSE <<>>)
         \o ContentUnder(lines, i + 1, key)

\* the sections the header lines open
OpenedSections(lines) ==
    {SectionKey(Strip(lines[h])) : h \in {j \in 1..Len(lines) : IsHeaderLine(Strip(lines[j]))}}

\* C30: the mapping has the sections the header lines open, and each section
\* holds, once and in their order, the non-empty lines that follow a header
\* line of that section up to the next header line; lines before the first
\* header line are in no section
ScanLosesNothing ==
    scan_pc = "done" =>
        /\ DOMAIN scan_sections = OpenedSections(draft)
        /\ \A key \in OpenedSections(draft) :
              scan_sections[key] = Join(ContentUnder(draft, 1, key))

====
